---- MODULE Spec2Model ----
(***************************************************************************)
(* A model of the mail-account validation engine and of the monitoring /   *)
(* forwarding pipeline of src/discord_bot.py (class EmailManager and the   *)
(* slash commands that drive it).                                          *)
(*                                                                         *)
(* Text is modelled by TLA+ strings; TLC evaluates Len, SubSeq, Tail and   *)
(* \o on them, so str.lower(), str.strip(), str.split() and the `in`       *)
(* substring test are computed character by character.                     *)
(***************************************************************************)
EXTENDS Integers, Sequences, FiniteSets, TLC

(***************************************************************************)
(* Bounds of the model.                                                    *)
(***************************************************************************)
NumOwners == 2
MaxRuns == 2

Owners == 1..NumOwners

(***************************************************************************)
(* Python string operations.                                               *)
(***************************************************************************)
UpperAlphabet == "ABCDEFGHIJKLMNOPQRSTUVWXYZ"
LowerAlphabet == "abcdefghijklmnopqrstuvwxyz"

CharAt(s, i) == SubSeq(s, i, i)

\* the lower-case letter of each upper-case letter
LowerOf == [c \in {CharAt(UpperAlphabet, i) : i \in 1..Len(UpperAlphabet)} |->
              CharAt(LowerAlphabet, CHOOSE i \in 1..Len(UpperAlphabet) : CharAt(UpperAlphabet, i) = c)]

LowerChar(c) == IF c \in DOMAIN LowerOf THEN LowerOf[c] ELSE c

RECURSIVE lower(_)
lower(s) == IF Len(s) = 0 THEN "" ELSE LowerChar(CharAt(s, 1)) \o lower(Tail(s))

\* pat in text
Contains(text, pat) ==
    \E i \in 1..(Len(text) + 1 - Len(pat)) : SubSeq(text, i, i + Len(pat) - 1) = pat

RECURSIVE lstrip(_)
lstrip(s) == IF Len(s) > 0 /\ CharAt(s, 1) = " " THEN lstrip(Tail(s)) ELSE s

RECURSIVE rstrip(_)
rstrip(s) ==
    IF Len(s) > 0 /\ CharAt(s, Len(s)) = " " THEN rstrip(SubSeq(s, 1, Len(s) - 1)) ELSE s

strip(s) == rstrip(lstrip(s))

\* s.find(c): index of the first occurrence of the character c in s from
\* position i on, 0 when there is none
RECURSIVE find_from(_, _, _)
find_from(s, c, i) ==
    IF i > Len(s) THEN 0
    ELSE IF CharAt(s, i) = c THEN i ELSE find_from(s, c, i + 1)

Find(s, c) == find_from(s, c, 1)

\* s.split(c): the list of the pieces of s between the occurrences of c
RECURSIVE split(_, _)
split(s, c) ==
    LET p == Find(s, c)
    IN IF p = 0 THEN <<s>>
       ELSE <<SubSeq(s, 1, p - 1)>> \o split(SubSeq(s, p + 1, Len(s)), c)

\* s.split(c, 1): at most one cut, at the first occurrence of c
split1(s, c) ==
    LET p == Find(s, c)
    IN IF p = 0 THEN <<s>>
       ELSE <<SubSeq(s, 1, p - 1), SubSeq(s, p + 1, Len(s))>>

(***************************************************************************)
(* Endpoint Resolver: get_imap_settings.  The provider table of the source *)
(* has some sixty entries; the rows for the domains the model's inputs use *)
(* are kept, every other domain takes the default.                         *)
(***************************************************************************)
ImapPort == 993
PlainPort == 143

\* email_addr.split('@')[1] raises IndexError when the address holds no '@'
get_imap_settings_raises(email_addr) == Len(split(email_addr, "@")) < 2

imap_settings(domain) ==
    CASE domain = "gmail.com" -> <<"imap.gmail.com", ImapPort>>
      [] domain = "yahoo.com" -> <<"imap.mail.yahoo.com", ImapPort>>
      [] domain = "alice.it" -> <<"in.alice.it", PlainPort>>
      [] OTHER -> <<"imap." \o domain, ImapPort>>

get_imap_settings(email_addr) == imap_settings(lower(split(email_addr, "@")[2]))

(***************************************************************************)
(* Batch ingest: the line loop of process_email_list.  parse_line gives    *)
(* what one line contributes: "skip", "raise" (the IndexError of           *)
(* get_imap_settings, which `except ValueError` does not catch) or the     *)
(* tuple appended to batch_data.                                           *)
(***************************************************************************)
parse_line(user_id, line) ==
    LET stripped == strip(line)
    IN IF Len(stripped) = 0 \/ ~Contains(stripped, ":") THEN [kind |-> "skip"]
       ELSE LET parts == split1(stripped, ":")
                email_addr == strip(parts[1])
                password == strip(parts[2])
            IN IF Len(email_addr) = 0 \/ Len(password) = 0 THEN [kind |-> "skip"]
               ELSE IF get_imap_settings_raises(email_addr) THEN [kind |-> "raise"]
               ELSE LET settings == get_imap_settings(email_addr)
                    IN [kind |-> "row",
                        row |-> [user_id |-> user_id, email |-> email_addr,
                                 password |-> password, imap_server |-> settings[1],
                                 imap_port |-> settings[2]]]

\* the for loop over the lines: it stops at the first line that raises
parse_raises(user_id, lines) ==
    \E k \in 1..Len(lines) : parse_line(user_id, lines[k]).kind = "raise"

RECURSIVE batch_data(_, _)
batch_data(user_id, lines) ==
    IF Len(lines) = 0 THEN <<>>
    ELSE LET parsed == parse_line(user_id, Head(lines))
         IN IF parsed.kind = "row"
            THEN <<parsed.row>> \o batch_data(user_id, Tail(lines))
            ELSE batch_data(user_id, Tail(lines))

\* INSERT OR IGNORE INTO accounts under UNIQUE(user_id, email); status defaults
\* to 'pending', the id is the row's position (AUTOINCREMENT)
insert_or_ignore(table, row) ==
    IF \E k \in 1..Len(table) : table[k].user_id = row.user_id /\ table[k].email = row.email
    THEN table
    ELSE Append(table, [user_id |-> row.user_id, email |-> row.email,
                        password |-> row.password, imap_server |-> row.imap_server,
                        imap_port |-> row.imap_port, status |-> "pending",
                        error_message |-> "NULL"])

RECURSIVE executemany(_, _)
executemany(table, rows) ==
    IF Len(rows) = 0 THEN table
    ELSE executemany(insert_or_ignore(table, Head(rows)), Tail(rows))

\* SELECT id, email, password, imap_server, imap_port ... WHERE user_id = ? AND
\* status = 'pending', in id order
RECURSIVE select_pending(_, _, _)
select_pending(table, user_id, k) ==
    IF k > Len(table) THEN <<>>
    ELSE IF table[k].user_id = user_id /\ table[k].status = "pending"
         THEN <<[id |-> k, email |-> table[k].email, password |-> table[k].password,
                 imap_server |-> table[k].imap_server, imap_port |-> table[k].imap_port]>>
              \o select_pending(table, user_id, k + 1)
         ELSE select_pending(table, user_id, k + 1)

(***************************************************************************)
(* Probe Classifier: test_email_connection.  A mail server's answer to one *)
(* candidate is a response [kind, text, count]:                            *)
(*   "ok"          login, select and search succeed, count messages        *)
(*   "imap_error"  imaplib.IMAP4.error with the text                       *)
(*   "ssl_error"   ssl.SSLError                                            *)
(*   "exception"   any other exception with the text                       *)
(*   "store_error" login, select and search succeed, count messages; the   *)
(*                 store refuses an UPDATE with the text                   *)
(* resps[k] is the answer to the k-th candidate tried.                     *)
(***************************************************************************)
fallback_servers(account) ==
    LET domain == split(account.email, "@")[2]
    IN << <<account.imap_server, account.imap_port>>,
          <<account.imap_server, PlainPort>>,
          <<"imap." \o domain, ImapPort>>,
          <<"mail." \o domain, ImapPort>>,
          <<"imap." \o domain, PlainPort>>,
          <<"mail." \o domain, PlainPort>> >>

TwoFactorKeywords == {"two-factor", "2fa", "verification", "app password"}

is_auth_failure(error_msg) ==
    Contains(error_msg, "authentication failed") \/ Contains(error_msg, "login failed")

\* a classifier that takes no error text for an unreachable endpoint
is_unreachable_never(error_msg) == FALSE

\* 'name or service not known' in error_msg or 'connection refused' in error_msg
is_unreachable(error_msg) ==
    Contains(error_msg, "name or service not known") \/ Contains(error_msg, "connection refused")

has_two_factor_keyword(error_msg) == \E keyword \in TwoFactorKeywords : Contains(error_msg, keyword)

probe_result(account, success, email_count, message, tried, sticky) ==
    [account_id |-> account.id, email_addr |-> account.email, success |-> success,
     email_count |-> email_count, message |-> message, tried |-> tried, sticky |-> sticky]

\* a probe that never writes the working candidate to the store
working_server_unwritten(account, server) == <<>>

\* "Update database with working server": the UPDATE accounts SET imap_server,
\* imap_port that a successful candidate issues when it is not the stored
\* endpoint (<<>>: no UPDATE)
working_server(account, server) ==
    IF server[1] # account.imap_server \/ server[2] # account.imap_port
    THEN <<server>> ELSE <<>>

\* the answer to one candidate: "continue" (next candidate) or the return
\* value.  The UPDATE of the working server is inside the try block: when it
\* raises, the generic handler takes the exception.
attempt(account, server, resp, k) ==
    LET error_msg == lower(resp.text)
    IN CASE resp.kind = "ok"
              \/ (resp.kind = "store_error" /\ working_server(account, server) = <<>>) ->
              probe_result(account, TRUE, resp.count,
                           "Connected via " \o server[1] \o ":" \o ToString(server[2]), k,
                           working_server(account, server))
         [] resp.kind = "imap_error" ->
              IF is_auth_failure(error_msg)
              THEN IF has_two_factor_keyword(error_msg)
                   THEN probe_result(account, FALSE, 0, "2FA_REQUIRED", k, <<>>)
                   ELSE probe_result(account, FALSE, 0,
                                     "Authentication failed - Invalid credentials", k, <<>>)
              ELSE IF Contains(error_msg, "too many simultaneous connections")
                   THEN probe_result(account, FALSE, 0,
                                     "Too many connections - Rate limited", k, <<>>)
                   ELSE [message |-> "continue"]
         [] resp.kind = "ssl_error" -> [message |-> "continue"]
         [] OTHER ->
              IF is_unreachable(error_msg)
              THEN [message |-> "continue"]
              ELSE probe_result(account, FALSE, 0, "Connection error: " \o resp.text, k, <<>>)

\* a loop over the candidates that only a success ends: after a failure
\* outcome the later candidates are still tried
RECURSIVE try_servers_exhaustive(_, _, _, _)
try_servers_exhaustive(account, servers, resps, k) ==
    IF k > Len(servers)
    THEN probe_result(account, FALSE, 0, "All connection attempts failed", k - 1, <<>>)
    ELSE IF k > Len(resps) THEN [message |-> "running"]
    ELSE LET answer == attempt(account, servers[k], resps[k], k)
         IN IF answer.message = "continue" \/ ~answer.success
            THEN try_servers_exhaustive(account, servers, resps, k + 1)
            ELSE answer

\* the for loop over the candidates from the k-th on; "running" while the k-th
\* candidate has not answered yet
RECURSIVE try_servers(_, _, _, _)
try_servers(account, servers, resps, k) ==
    IF k > Len(servers)
    THEN probe_result(account, FALSE, 0, "All connection attempts failed", k - 1, <<>>)
    ELSE IF k > Len(resps) THEN [message |-> "running"]
    ELSE LET answer == attempt(account, servers[k], resps[k], k)
         IN IF answer.message = "continue"
            THEN try_servers(account, servers, resps, k + 1)
            ELSE answer

test_email_connection(account, resps) ==
    try_servers(account, fallback_servers(account), resps, 1)

\* a status update that is written for successes and two-factor failures only
result_status_unwritten(result) ==
    IF result.success THEN "active"
    ELSE IF result.message = "2FA_REQUIRED" THEN "2fa" ELSE "pending"

\* the status process_email_list writes for a result, and the counter it bumps
result_status(result) ==
    IF result.success THEN "active"
    ELSE IF result.message = "2FA_REQUIRED" THEN "2fa" ELSE "failed"

result_counter(result) ==
    IF result.success THEN "successful"
    ELSE IF result.message = "2FA_REQUIRED" THEN "twofa" ELSE "failed"

(***************************************************************************)
(* State.                                                                  *)
(*   accounts              the accounts table, a sequence of rows; a row's *)
(*                         id is its position                              *)
(*   login_in_progress, stop_login_requested, login_stats                  *)
(*                         the per-owner dictionaries of EmailManager; a   *)
(*                         missing key reads as False / as zero counters   *)
(*   current_user          the single slot upload_emails stores the        *)
(*                         uploading user in (0: never set)                *)
(*   runs                  the process_email_list tasks, in creation order *)
(*                         (autostart records what the run's tail did      *)
(*                         about monitoring, probed the ids of the         *)
(*                         accounts the run handed to the worker pool,     *)
(*                         written the ids of the accounts whose status    *)
(*                         the run wrote, in order, shown the number of    *)
(*                         the run's calls of update_status_embed and      *)
(*                         snapshot what the last of them showed, dm whom  *)
(*                         the results message was sent to and the ids of  *)
(*                         the accounts in its three lists)                *)
(*   p_account, p_resps, p_status                                          *)
(*                         one probe followed candidate by candidate       *)
(*   emails                the emails table, a sequence of rows; a row's   *)
(*                         id is its position                              *)
(*   mailbox               per account, the messages of its INBOX in       *)
(*                         sequence-number order (the mail servers' state) *)
(*   workers               the executor threads running                    *)
(*                         check_account_for_new_emails_sync               *)
(*   forward_tasks         the forward_email_to_webhook tasks created and  *)
(*                         not yet run, in creation order                  *)
(*   sink                  the requests the webhook endpoint has received  *)
(*   webhooks, monitor_filters                                             *)
(*                         the webhooks table and the monitor_filters      *)
(*                         table, sets of rows                             *)
(*   webhook_command       the /webhook command handled last: the owner,   *)
(*                         the URL typed and the endpoint's answer to the  *)
(*                         test delivery                                   *)
(*   monitoring_tasks      per owner, the monitor_emails_task              *)
(*   loop_tasks            per owner, the number of monitor_emails_task    *)
(*                         tasks created and not cancelled                 *)
(*   polled                per account, the size of the mailbox that the   *)
(*                         fetch that returned last had seen (-1: none     *)
(*                         yet) and whether it had fetched every message   *)
(*   notices               the private messages "N new emails detected     *)
(*                         and forwarded" sent so far: the user they were  *)
(*                         sent to, the owner of the loop and N            *)
(*   posting               the forward that is inside a blocking HTTP      *)
(*                         call, if any                                    *)
(* A task of monitoring_tasks also records, for the properties: found (the *)
(* ids of the rows its fetches have returned in the cycle under way).      *)
(* A thread of workers also records, for the properties: seen (the size of *)
(* the mailbox when it searched), failed (a connect or fetch of it         *)
(* failed), raised (an INSERT of it raised) and after (whether a fetch of  *)
(* the same mailbox had returned, with no mail since, when it started).    *)
(***************************************************************************)
VARIABLES accounts, login_in_progress, stop_login_requested, login_stats,
          current_user, runs, p_account, p_resps, p_status
VARIABLES emails, mailbox, workers, forward_tasks, sink, webhooks, webhook_command,
          monitor_filters, monitoring_tasks, loop_tasks, polled, notices, posting

valVars == <<accounts, login_in_progress, stop_login_requested, login_stats,
             current_user, runs>>
probeVars == <<p_account, p_resps, p_status>>
monVars == <<emails, mailbox, workers, forward_tasks, sink, webhooks, webhook_command,
             monitor_filters, monitoring_tasks, loop_tasks, polled, notices, posting>>
vars == <<accounts, login_in_progress, stop_login_requested, login_stats,
          current_user, runs, p_account, p_resps, p_status,
          emails, mailbox, workers, forward_tasks, sink, webhooks, webhook_command,
          monitor_filters, monitoring_tasks, loop_tasks, polled, notices, posting>>

\* the monitor_emails_task of an owner: absent from monitoring_tasks, or at
\* the top of its loop, or waiting for a batch of fetches, or in the backoff
\* sleep of its exception handler.  results is the sum of what the tasks of
\* the batch have returned so far, count is new_emails_count.
NoTask == [pc |-> "off", accts |-> <<>>, i |-> 0, results |-> 0, count |-> 0, found |-> {}]
NewTask == [pc |-> "load", accts |-> <<>>, i |-> 0, results |-> 0, count |-> 0, found |-> {}]

\* no forward is inside a blocking call
NoPost == [id |-> 0, user_id |-> 0, url |-> ""]

\* The event loop runs one callback at a time: while a forward sits in
\* requests.get or requests.post, which block the thread of the event loop,
\* no task or command handler runs.
event_loop_free == posting = NoPost

\* a start that creates a task without looking the owner up in monitoring_tasks
start_email_monitoring_unchecked(tasks, loops, user_id) ==
    [tasks |-> [tasks EXCEPT ![user_id] = NewTask],
     loops |-> [loops EXCEPT ![user_id] = @ + 1]]

\* if user_id in self.monitoring_tasks: return; otherwise a task is created
\* and stored under the owner
start_email_monitoring(tasks, loops, user_id) ==
    IF tasks[user_id].pc # "off" THEN [tasks |-> tasks, loops |-> loops]
    ELSE [tasks |-> [tasks EXCEPT ![user_id] = NewTask],
          loops |-> [loops EXCEPT ![user_id] = @ + 1]]

\* SELECT url FROM webhooks WHERE user_id = ? AND is_active = 1, fetchone();
\* "" stands for no row
select_webhook(table, user_id) ==
    LET rows == {row \in table : row.user_id = user_id /\ row.is_active = 1}
    IN IF rows = {} THEN "" ELSE (CHOOSE row \in rows : TRUE).url

\* the tail of process_email_list: monitoring starts when the run had a
\* success, the user slot is set and the owner has a webhook; found tells
\* whether start_email_monitoring was called and what the owner's entry was
start_after_run(user_id) ==
    IF /\ login_stats[user_id].successful > 0
       /\ current_user # 0
       /\ select_webhook(webhooks, user_id) # ""
    THEN LET started == start_email_monitoring(monitoring_tasks, loop_tasks, user_id)
         IN [tasks |-> started.tasks, loops |-> started.loops,
             found |-> IF monitoring_tasks[user_id].pc # "off" THEN "running" ELSE "new"]
    ELSE [tasks |-> monitoring_tasks, loops |-> loop_tasks, found |-> "no"]

\* batch_size of process_email_list: 100 in the source, scaled down so that a
\* run of a few accounts has several batches
batch_size == 2

TerminalStatuses == {"active", "failed", "2fa"}

\* the test of line 770 looks at the processed counter every progress_every
\* accounts: 25 in the source, where a batch holds 100 accounts; scaled down
\* with batch_size, so that a batch still holds several multiples of it
progress_every == 1

\* update_status_embed: what the embed shows, read from login_stats[user_id]
\* at the call (stats.get('twofa', 0) for a dictionary without that key); at
\* tells where process_email_list made the call
update_status_embed(stats, total_accounts, at) ==
    [at |-> at, processed |-> stats.processed, total |-> total_accounts,
     successful |-> stats.successful, failed |-> stats.failed,
     twofa |-> IF "twofa" \in DOMAIN stats THEN stats.twofa ELSE 0]

\* no call of update_status_embed yet
NoSnapshot == [at |-> "none", processed |-> 0, total |-> 0, successful |-> 0, failed |-> 0,
               twofa |-> 0]

\* if processed % 25 == 0 or processed == total_accounts
\* no results were sent
NoDm == [to |-> 0, valid |-> {}, invalid |-> {}, twofa |-> {}]

\* send_results_dm: the three lists are selected by id when
\* processed_account_ids is a non-empty list, and among all accounts of
\* user_id otherwise; they are sent to user
send_results_dm(table, user, user_id, processed_account_ids) ==
    LET ids == IF processed_account_ids # <<>>
               THEN {processed_account_ids[k] : k \in 1..Len(processed_account_ids)}
               ELSE {id \in 1..Len(table) : table[id].user_id = user_id}
    IN [to |-> user,
        valid |-> {id \in ids : table[id].status = "active"},
        invalid |-> {id \in ids : table[id].status = "failed"},
        twofa |-> {id \in ids : table[id].status = "2fa"}]

\* "Send results to user's DM": if self.current_user, the ids are
\* login_stats[user_id].get('processed_account_ids', [])
results_dm(table, user, stats, user_id) ==
    IF user = 0 THEN NoDm
    ELSE send_results_dm(table, user, user_id,
                         IF "processed_account_ids" \in DOMAIN stats
                         THEN stats.processed_account_ids ELSE <<>>)

status_update_due(stats, total_accounts) ==
    stats.processed % progress_every = 0 \/ stats.processed = total_accounts

\* login_stats[user_id] is a dictionary: a function whose domain is its keys.
\* An owner who never uploaded has none; "Initialize tracking" stores one
\* without the keys twofa and processed_account_ids.
NoStats == [key \in {} |-> 0]
InitStats == [successful |-> 0, failed |-> 0, total |-> 0, processed |-> 0]

\* The files owners upload, as lists of lines.
UploadSamples ==
    { <<"a@x.com:p1", "malformed-line", "b@y.com:p2">>,
      <<" c@gmail.com : p3 ", "a@x.com:p9", "b@y.com:p2">>,
      <<"a@x.com:p1", "nodomain:pw">>,
      <<":p1", "b@y.com:", "">> }

\* parse_raises and batch_data of every upload, computed once
Parsed == [o \in Owners, lines \in UploadSamples |->
              [raises |-> parse_raises(o, lines), rows |-> batch_data(o, lines)]]

\* What a mail server may answer to the candidates of one probe.
Ok(n) == [kind |-> "ok", text |-> "", count |-> n]
ImapError(t) == [kind |-> "imap_error", text |-> t, count |-> 0]
SslError == [kind |-> "ssl_error", text |-> "", count |-> 0]
OtherError(t) == [kind |-> "exception", text |-> t, count |-> 0]
StoreError(n) == [kind |-> "store_error", text |-> "database is locked", count |-> n]

Behaviours ==
    { <<Ok(2)>>,
      <<ImapError("Authentication failed.")>>,
      <<ImapError("LOGIN failed: 2FA is on")>>,
      <<OtherError("[Errno 111] Connection refused"), SslError, Ok(0)>> }

Min(a, b) == IF a < b THEN a ELSE b

(***************************************************************************)
(* Validation Engine: process_email_list, one task per upload.             *)
(***************************************************************************)
\* upload_emails: remember the user, create the task
Upload(o, lines) ==
    /\ event_loop_free
    /\ Len(runs) < MaxRuns
    /\ current_user' = o
    /\ runs' = Append(runs, [owner |-> o, lines |-> lines, pc |-> "created",
                             accts |-> <<>>, i |-> 0, stopped |-> FALSE,
                             stop_asked |-> FALSE, autostart |-> "none",
                             probed |-> <<>>, written |-> <<>>, shown |-> 0,
                             snapshot |-> NoSnapshot, dm |-> NoDm])
    /\ UNCHANGED <<accounts, login_in_progress, stop_login_requested, login_stats>>
    /\ UNCHANGED <<probeVars, monVars>>

\* the task starts: "Initialize tracking", up to the first await; the event
\* loop starts the tasks in the order of their creation
RunInit(r) ==
    /\ event_loop_free
    /\ runs[r].pc = "created"
    /\ \A earlier \in 1..(r - 1) : runs[earlier].pc # "created"
    /\ login_in_progress' = [login_in_progress EXCEPT ![runs[r].owner] = TRUE]
    /\ stop_login_requested' = [stop_login_requested EXCEPT ![runs[r].owner] = FALSE]
    /\ login_stats' = [login_stats EXCEPT ![runs[r].owner] = InitStats]
    /\ runs' = [runs EXCEPT ![r].pc = "ingest"]
    /\ UNCHANGED <<accounts, current_user>>
    /\ UNCHANGED <<probeVars, monVars>>

\* parsing the lines raises: the exception leaves the task, nothing is reset
RunIngestRaise(r) ==
    /\ event_loop_free
    /\ runs[r].pc = "ingest"
    /\ Parsed[runs[r].owner, runs[r].lines].raises
    /\ runs' = [runs EXCEPT ![r].pc = "crashed"]
    /\ UNCHANGED <<accounts, login_in_progress, stop_login_requested, login_stats,
                   current_user>>
    /\ UNCHANGED <<probeVars, monVars>>

\* "No Valid Accounts Found"
RunIngestEmpty(r) ==
    /\ event_loop_free
    /\ runs[r].pc = "ingest"
    /\ ~Parsed[runs[r].owner, runs[r].lines].raises
    /\ Parsed[runs[r].owner, runs[r].lines].rows = <<>>
    /\ login_in_progress' = [login_in_progress EXCEPT ![runs[r].owner] = FALSE]
    /\ runs' = [runs EXCEPT ![r].pc = "done"]
    /\ UNCHANGED <<accounts, stop_login_requested, login_stats, current_user>>
    /\ UNCHANGED <<probeVars, monVars>>

\* insert the accounts, select the owner's pending accounts, reset the counters
RunIngest(r) ==
    /\ event_loop_free
    /\ runs[r].pc = "ingest"
    /\ ~Parsed[runs[r].owner, runs[r].lines].raises
    /\ Parsed[runs[r].owner, runs[r].lines].rows # <<>>
    /\ accounts' = executemany(accounts, Parsed[runs[r].owner, runs[r].lines].rows)
    /\ login_stats' = [login_stats EXCEPT ![runs[r].owner] =
            LET selected == select_pending(accounts', runs[r].owner, 1)
            IN [successful |-> 0, failed |-> 0, twofa |-> 0, processed |-> 0,
                total |-> Len(selected),
                processed_account_ids |-> [k \in 1..Len(selected) |-> selected[k].id]]]
    /\ runs' = [runs EXCEPT ![r].pc = "loop",
                            ![r].accts = select_pending(accounts', runs[r].owner, 1),
                            ![r].i = 0,
                            ![r].shown = @ + 1,
                            ![r].snapshot =
                                update_status_embed(login_stats'[runs[r].owner],
                                                    login_stats'[runs[r].owner].total, "start")]
    /\ UNCHANGED <<login_in_progress, stop_login_requested, current_user>>
    /\ UNCHANGED <<probeVars, monVars>>

\* the for loop is exhausted: "Final update and summary"
RunLoopExit(r) ==
    /\ event_loop_free
    /\ runs[r].pc = "loop"
    /\ runs[r].i >= Len(runs[r].accts)
    /\ login_in_progress' = [login_in_progress EXCEPT ![runs[r].owner] = FALSE]
    /\ runs' = [runs EXCEPT ![r].pc = "done",
                            ![r].autostart = start_after_run(runs[r].owner).found,
                            ![r].shown = @ + 1,
                            ![r].snapshot = update_status_embed(login_stats[runs[r].owner],
                                                                Len(runs[r].accts), "final"),
                            ![r].dm = results_dm(accounts, current_user,
                                                 login_stats[runs[r].owner], runs[r].owner)]
    /\ UNCHANGED <<accounts, stop_login_requested, login_stats, current_user>>
    /\ monitoring_tasks' = start_after_run(runs[r].owner).tasks
    /\ loop_tasks' = start_after_run(runs[r].owner).loops
    /\ UNCHANGED <<emails, mailbox, workers, forward_tasks, sink, webhooks, webhook_command,
                   monitor_filters, polled, notices, posting>>
    /\ UNCHANGED probeVars

\* the cancellation check at the start of a batch finds the flag set: the
\* "stopped by user request" message is sent (an await)
RunLoopStop(r) ==
    /\ event_loop_free
    /\ runs[r].pc = "loop"
    /\ runs[r].i < Len(runs[r].accts)
    /\ stop_login_requested[runs[r].owner]
    /\ runs' = [runs EXCEPT ![r].pc = "stopping", ![r].stopped = TRUE]
    /\ UNCHANGED <<accounts, login_in_progress, stop_login_requested, login_stats,
                   current_user>>
    /\ UNCHANGED <<probeVars, monVars>>

\* after the message: break, then "Final update and summary"
RunStopped(r) ==
    /\ event_loop_free
    /\ runs[r].pc = "stopping"
    /\ login_in_progress' = [login_in_progress EXCEPT ![runs[r].owner] = FALSE]
    /\ runs' = [runs EXCEPT ![r].pc = "done",
                            ![r].autostart = start_after_run(runs[r].owner).found,
                            ![r].shown = @ + 1,
                            ![r].snapshot = update_status_embed(login_stats[runs[r].owner],
                                                                Len(runs[r].accts), "final"),
                            ![r].dm = results_dm(accounts, current_user,
                                                 login_stats[runs[r].owner], runs[r].owner)]
    /\ UNCHANGED <<accounts, stop_login_requested, login_stats, current_user>>
    /\ monitoring_tasks' = start_after_run(runs[r].owner).tasks
    /\ loop_tasks' = start_after_run(runs[r].owner).loops
    /\ UNCHANGED <<emails, mailbox, workers, forward_tasks, sink, webhooks, webhook_command,
                   monitor_filters, polled, notices, posting>>
    /\ UNCHANGED probeVars

\* a slice that starts one account early: accounts[i - 1:i + batch_size]
batch_of_overlapping(run) ==
    SubSeq(run.accts, IF run.i > 0 THEN run.i ELSE 1, Min(run.i + batch_size, Len(run.accts)))

\* batch = accounts[i:i + batch_size]
batch_of(run) == SubSeq(run.accts, run.i + 1, Min(run.i + batch_size, Len(run.accts)))

\* the batch accounts[i:i + batch_size] is handed to the worker pool
RunDispatch(r) ==
    /\ event_loop_free
    /\ runs[r].pc = "loop"
    /\ runs[r].i < Len(runs[r].accts)
    /\ ~stop_login_requested[runs[r].owner]
    /\ runs' = [runs EXCEPT ![r].pc = "gather",
                            ![r].probed = @ \o [k \in 1..Len(batch_of(runs[r])) |->
                                                  batch_of(runs[r])[k].id]]
    /\ UNCHANGED <<accounts, login_in_progress, stop_login_requested, login_stats,
                   current_user>>
    /\ UNCHANGED <<probeVars, monVars>>

\* the workers' UPDATE accounts SET imap_server, imap_port of the successful
\* probes whose working candidate is not the stored one
RECURSIVE apply_sticky(_, _)
apply_sticky(table, results) ==
    IF Len(results) = 0 THEN table
    ELSE apply_sticky(
            IF Head(results).sticky # <<>>
            THEN [table EXCEPT ![Head(results).account_id].imap_server = Head(results).sticky[1][1],
                               ![Head(results).account_id].imap_port = Head(results).sticky[1][2]]
            ELSE table,
            Tail(results))

\* an update loop that writes the status of the first result only
apply_results_first(table, results) ==
    IF Len(results) = 0 THEN table
    ELSE [table EXCEPT ![Head(results).account_id].status = result_status(Head(results)),
                       ![Head(results).account_id].error_message =
                             IF Head(results).success THEN "NULL" ELSE Head(results).message]

\* "Update database": one UPDATE accounts SET status ... per result
RECURSIVE apply_results(_, _)
apply_results(table, results) ==
    IF Len(results) = 0 THEN table
    ELSE apply_results(
            [table EXCEPT ![Head(results).account_id].status = result_status(Head(results)),
                          ![Head(results).account_id].error_message =
                                IF Head(results).success THEN "NULL" ELSE Head(results).message],
            Tail(results))

\* the counters after the results of one batch, result by result;
\* login_stats[user_id][counter] += 1 raises KeyError when the dictionary in
\* place has no such key, and the results from there on are not counted
RECURSIVE count_results(_, _)
count_results(stats, results) ==
    IF Len(results) = 0 THEN [stats |-> stats, raised |-> FALSE]
    ELSE IF result_counter(Head(results)) \notin DOMAIN stats
         THEN [stats |-> stats, raised |-> TRUE]
         ELSE count_results(
                 [stats EXCEPT ![result_counter(Head(results))] = @ + 1, !.processed = @ + 1],
                 Tail(results))

\* asyncio.gather returns the results of the batch; they are applied to the
\* store and to the owner's counters in one piece (no await in between).  When
\* a counter raises, the exception leaves the task before the commit: the
\* status updates of the batch are lost and nothing is reset.
RunGather(r) ==
    /\ event_loop_free
    /\ runs[r].pc = "gather"
    /\ \E batch \in {batch_of(runs[r])} :
       \E outcome \in {[k \in 1..Len(batch), b \in Behaviours |->
                            test_email_connection(batch[k], b)]} :
       \E answers \in [1..Len(batch) -> Behaviours] :
       \E results \in {[k \in 1..Len(batch) |-> outcome[k, answers[k]]]} :
       \E counted \in {count_results(login_stats[runs[r].owner], results)} :
            /\ accounts' = IF counted.raised
                           THEN apply_sticky(accounts, results)
                           ELSE apply_results(apply_sticky(accounts, results), results)
            /\ login_stats' = [login_stats EXCEPT ![runs[r].owner] = counted.stats]
            /\ runs' = IF counted.raised
                       THEN [runs EXCEPT ![r].pc = "crashed"]
                       ELSE [runs EXCEPT ![r].pc = "loop", ![r].i = @ + batch_size,
                                         ![r].written = @ \o [k \in 1..Len(results) |->
                                                                 results[k].account_id],
                                         ![r].shown =
                                             IF status_update_due(counted.stats, Len(runs[r].accts))
                                             THEN @ + 1 ELSE @,
                                         ![r].snapshot =
                                             IF status_update_due(counted.stats, Len(runs[r].accts))
                                             THEN update_status_embed(counted.stats,
                                                                      Len(runs[r].accts), "batch")
                                             ELSE @]
    /\ UNCHANGED <<login_in_progress, stop_login_requested, current_user>>
    /\ UNCHANGED <<probeVars, monVars>>

\* whether run r has started and not yet reached its final update
run_executing(run) == run.pc \in {"ingest", "loop", "gather", "stopping"}

\* /stop: accepted while login_in_progress is set for the owner.  stop_asked
\* records, for each run executing at that moment, that a stop was requested.
StopValidation(o) ==
    /\ event_loop_free
    /\ login_in_progress[o]
    /\ stop_login_requested' = [stop_login_requested EXCEPT ![o] = TRUE]
    /\ runs' = [r \in 1..Len(runs) |->
                  IF runs[r].owner = o /\ run_executing(runs[r])
                  THEN [runs[r] EXCEPT !.stop_asked = TRUE] ELSE runs[r]]
    /\ UNCHANGED <<accounts, login_in_progress, login_stats, current_user>>
    /\ UNCHANGED <<probeVars, monVars>>

(***************************************************************************)
(* The stores and helpers of the monitoring pipeline.                      *)
(***************************************************************************)
MaxMail == 2
MaxWorkers == 2

\* batch_size of monitor_emails_task, the message_ids[-10:] window and the
\* status_code the forward step tests for
monitor_batch_size == 5
MaxListed == 10
NoContent == 204

Addresses == {"News@Shop.com", "news@shop.com", "other@z.org", "Bank@B.io"}

\* a message of a mailbox: its Message-ID header (<<>> when the header is
\* absent) and the address parse_sender_email extracts from its From header
MailFeed ==
    << [header |-> <<"M1">>, sender |-> "News@Shop.com"],
       [header |-> <<>>, sender |-> "other@z.org"],
       [header |-> <<"M1">>, sender |-> "News@Shop.com"] >>

\* a SELECT of the owner's accounts whatever their status
RECURSIVE select_of_owner(_, _, _)
select_of_owner(table, user_id, k) ==
    IF k > Len(table) THEN <<>>
    ELSE IF table[k].user_id = user_id
         THEN <<[id |-> k, email |-> table[k].email, user_id |-> user_id]>>
                  \o select_of_owner(table, user_id, k + 1)
         ELSE select_of_owner(table, user_id, k + 1)

\* SELECT ... FROM accounts WHERE user_id = ? AND status = 'active'
RECURSIVE select_active(_, _, _)
select_active(table, user_id, k) ==
    IF k > Len(table) THEN <<>>
    ELSE IF table[k].user_id = user_id /\ table[k].status = "active"
         THEN <<[id |-> k, email |-> table[k].email, user_id |-> user_id]>>
                  \o select_active(table, user_id, k + 1)
         ELSE select_active(table, user_id, k + 1)

\* email_message.get('Message-ID', msg_id.decode())
message_id_of(msg, msg_id) == IF msg.header # <<>> THEN msg.header[1] ELSE ToString(msg_id)

\* SELECT COUNT(*) FROM emails WHERE account_id = ? AND message_id = ?  > 0
already_processed(table, account_id, message_id) ==
    \E id \in 1..Len(table) :
        table[id].account_id = account_id /\ table[id].message_id = message_id

email_row(account_id, user_id, message_id, sender) ==
    [account_id |-> account_id, user_id |-> user_id, message_id |-> message_id,
     sender |-> sender, forwarded |-> FALSE]

\* an INSERT without the UNIQUE(account_id, message_id) constraint
insert_email_unconstrained(table, row) ==
    [raised |-> FALSE, table |-> Append(table, row), lastrowid |-> Len(table) + 1]

\* an INSERT OR REPLACE: the stored copy is overwritten
insert_email_or_replace(table, row) ==
    IF already_processed(table, row.account_id, row.message_id)
    THEN LET id == CHOOSE k \in 1..Len(table) :
                       table[k].account_id = row.account_id /\ table[k].message_id = row.message_id
         IN [raised |-> FALSE, table |-> [table EXCEPT ![id] = row], lastrowid |-> id]
    ELSE [raised |-> FALSE, table |-> Append(table, row), lastrowid |-> Len(table) + 1]

\* an INSERT OR IGNORE: the duplicate is dropped silently
insert_email_or_ignore(table, row) ==
    IF already_processed(table, row.account_id, row.message_id)
    THEN LET id == CHOOSE k \in 1..Len(table) :
                       table[k].account_id = row.account_id /\ table[k].message_id = row.message_id
         IN [raised |-> FALSE, table |-> table, lastrowid |-> id]
    ELSE [raised |-> FALSE, table |-> Append(table, row), lastrowid |-> Len(table) + 1]

\* an INSERT whose transaction is never committed
insert_email_uncommitted(table, row) ==
    IF already_processed(table, row.account_id, row.message_id)
    THEN [raised |-> TRUE, table |-> table, lastrowid |-> 0]
    ELSE [raised |-> FALSE, table |-> table, lastrowid |-> Len(table) + 1]

\* INSERT INTO emails ...; commit; lastrowid.  The table's
\* UNIQUE(account_id, message_id) makes the INSERT of a stored key raise.
insert_email(table, row) ==
    IF already_processed(table, row.account_id, row.message_id)
    THEN [raised |-> TRUE, table |-> table, lastrowid |-> 0]
    ELSE [raised |-> FALSE, table |-> Append(table, row), lastrowid |-> Len(table) + 1]

\* the forwarded flag is written whatever the endpoint answered
mark_forwarded_always(table, id, answer) ==
    [k \in 1..Len(table) |->
        IF k = id THEN [table[k] EXCEPT !.forwarded = TRUE] ELSE table[k]]

\* if response.status_code == 204: UPDATE emails SET forwarded = 1 WHERE id = ?
mark_forwarded(table, id, answer) ==
    [k \in 1..Len(table) |->
        IF k = id /\ answer.kind = "status" /\ answer.code = NoContent
        THEN [table[k] EXCEPT !.forwarded = TRUE] ELSE table[k]]

\* the answers of the webhook endpoint: a status code, or requests.post raises
SinkAnswers ==
    { [kind |-> "status", code |-> NoContent], [kind |-> "status", code |-> 400],
      [kind |-> "raise", code |-> 0] }

\* the URLs owners type and url.startswith(...)
WebhookPrefix == "https://discord.com/api/webhooks/"
Urls == {"https://discord.com/api/webhooks/1", "https://discord.com/api/webhooks/2",
         "http://example.com/hook"}

startswith(s, prefix) == Len(s) >= Len(prefix) /\ SubSeq(s, 1, Len(prefix)) = prefix

\* an INSERT into a table without UNIQUE(user_id): the old row stays
set_webhook_url_insert(table, user_id, url) ==
    table \cup {[user_id |-> user_id, url |-> url, is_active |-> 1]}

\* INSERT OR REPLACE INTO webhooks under UNIQUE(user_id): the owner's row, if
\* any, is replaced
set_webhook_url(table, user_id, url) ==
    {row \in table : row.user_id # user_id}
        \cup {[user_id |-> user_id, url |-> url, is_active |-> 1]}

\* no /webhook command yet, and the answer recorded for a URL that was refused
\* without a test delivery
NoAnswer == [kind |-> "none", code |-> 0]
NoCommand == [user_id |-> 0, url |-> "", answer |-> NoAnswer]

should_monitor_sender(filters, user_id, sender_email) ==
    LET filter_count == Cardinality({f \in filters : f.user_id = user_id})
    IN IF filter_count = 0 THEN TRUE
       ELSE \E f \in filters : f.user_id = user_id /\ f.sender_email = lower(sender_email)

\* /monitor add that stores the address as typed
monitor_add_verbatim(filters, user_id, sender_email) ==
    IF \E f \in filters : f.user_id = user_id /\ f.sender_email = lower(sender_email)
    THEN filters
    ELSE filters \cup {[user_id |-> user_id, sender_email |-> sender_email]}

\* /monitor add, remove and clear
monitor_add(filters, user_id, sender_email) ==
    IF \E f \in filters : f.user_id = user_id /\ f.sender_email = lower(sender_email)
    THEN filters
    ELSE filters \cup {[user_id |-> user_id, sender_email |-> lower(sender_email)]}

monitor_remove(filters, user_id, sender_email) ==
    {f \in filters : ~(f.user_id = user_id /\ f.sender_email = lower(sender_email))}

monitor_clear(filters, user_id) == {f \in filters : f.user_id # user_id}

Free == [pc |-> "free"]
NotPolled == [n |-> -1, clean |-> FALSE]

\* the webhooks table when every owner has set a webhook
ConfiguredWebhooks ==
    {[user_id |-> o, url |-> CHOOSE url \in Urls : startswith(url, WebhookPrefix),
      is_active |-> 1] : o \in Owners}

InitMonitorIdle ==
    /\ emails = <<>>
    /\ mailbox = <<>>
    /\ workers = [w \in 1..MaxWorkers |-> Free]
    /\ forward_tasks = <<>>
    /\ sink = <<>>
    /\ webhooks = {}
    /\ webhook_command = NoCommand
    /\ monitor_filters = {}
    /\ monitoring_tasks = [o \in Owners |-> NoTask]
    /\ loop_tasks = [o \in Owners |-> 0]
    /\ polled = <<>>
    /\ notices = <<>>
    /\ posting = NoPost

InitValidation ==
    /\ accounts = <<>>
    /\ login_in_progress = [o \in Owners |-> FALSE]
    /\ stop_login_requested = [o \in Owners |-> FALSE]
    /\ login_stats = [o \in Owners |-> NoStats]
    /\ current_user = 0
    /\ runs = <<>>

InitProbeIdle ==
    /\ p_account = [id |-> 0, email |-> "", password |-> "", imap_server |-> "", imap_port |-> 0]
    /\ p_resps = <<>>
    /\ p_status = "idle"

Init == InitValidation /\ InitProbeIdle /\ InitMonitorIdle

Next ==
    \/ \E o \in Owners, lines \in UploadSamples : Upload(o, lines)
    \/ \E r \in 1..Len(runs) : RunInit(r)
    \/ \E r \in 1..Len(runs) : RunIngestRaise(r)
    \/ \E r \in 1..Len(runs) : RunIngestEmpty(r)
    \/ \E r \in 1..Len(runs) : RunIngest(r)
    \/ \E r \in 1..Len(runs) : RunLoopExit(r)
    \/ \E r \in 1..Len(runs) : RunLoopStop(r)
    \/ \E r \in 1..Len(runs) : RunStopped(r)
    \/ \E r \in 1..Len(runs) : RunDispatch(r)
    \/ \E r \in 1..Len(runs) : RunGather(r)
    \/ \E o \in Owners : StopValidation(o)

Spec == Init /\ [][Next]_vars

(***************************************************************************)
(* One probe, candidate by candidate: the mail servers answer one          *)
(* candidate at a time until test_email_connection returns, then the       *)
(* result is applied as process_email_list applies it.                     *)
(***************************************************************************)
ProbeEmails == {"a@x.com", "c@gmail.com", "d@alice.it"}

\* the account rows as ingest creates them, and a row whose stored endpoint
\* an earlier sticky update has rewritten
ProbeAccounts ==
    { [id |-> 1, email |-> e, password |-> "p1",
       imap_server |-> get_imap_settings(e)[1], imap_port |-> get_imap_settings(e)[2]]
        : e \in ProbeEmails }
    \cup { [id |-> 1, email |-> "a@x.com", password |-> "p1",
            imap_server |-> "mail.x.com", imap_port |-> PlainPort] }

ImapTexts ==
    { "Authentication failed.",
      "LOGIN failed: 2FA is on",
      "authentication failed, please use an app-specific password",
      "Too many simultaneous connections",
      "[UNAVAILABLE] try later" }

OtherTexts ==
    { "[Errno -2] Name or service not known",
      "[Errno 111] Connection refused",
      "timed out" }

Responses ==
    {Ok(0), Ok(2), StoreError(2), SslError} \cup {ImapError(t) : t \in ImapTexts}
        \cup {OtherError(t) : t \in OtherTexts}

ProbeAnswer ==
    /\ p_status = "pending"
    /\ test_email_connection(p_account, p_resps).message = "running"
    /\ \E resp \in Responses : p_resps' = Append(p_resps, resp)
    /\ UNCHANGED <<p_account, p_status>>
    /\ UNCHANGED <<valVars, monVars>>

ProbeApply ==
    /\ event_loop_free
    /\ p_status = "pending"
    /\ \E result \in {test_email_connection(p_account, p_resps)} :
         /\ result.message # "running"
         /\ p_status' = result_status(result)
         /\ p_account' = IF result.sticky # <<>>
                         THEN [p_account EXCEPT !.imap_server = result.sticky[1][1],
                                                !.imap_port = result.sticky[1][2]]
                         ELSE p_account
    /\ UNCHANGED p_resps
    /\ UNCHANGED <<valVars, monVars>>

InitProbe ==
    /\ InitValidation
    /\ InitMonitorIdle
    /\ p_account \in ProbeAccounts
    /\ p_resps = <<>>
    /\ p_status = "pending"

NextProbe ==
    \/ ProbeAnswer
    \/ ProbeApply

SpecProbe == InitProbe /\ [][NextProbe]_vars

(***************************************************************************)
(* Monitoring and forwarding: the accounts have been validated, the        *)
(* owners set webhooks and filters, start and stop monitoring, mail        *)
(* arrives, and the fetch threads and forward tasks run interleaved.       *)
(***************************************************************************)
\* the accounts table after a validation run of each of two owners: the
\* account of the first is active, the account of the other failed
MonitorAccounts ==
    LET table == executemany(executemany(<<>>, batch_data(1, <<"a@x.com:p1">>)),
                             batch_data(NumOwners, <<"b@y.com:p2">>))
    IN [k \in 1..Len(table) |->
           [table[k] EXCEPT !.status = IF k = 1 THEN "active" ELSE "failed"]]

\* the filter tables the monitoring specification starts from
FilterSamples == {{}, {[user_id |-> 1, sender_email |-> "news@shop.com"]}}

free_slots == {w \in 1..MaxWorkers : workers[w].pc = "free"}
attached_workers(o) ==
    {w \in 1..MaxWorkers : workers[w].pc # "free" /\ workers[w].user_id = o /\ workers[w].attached}
mail_count == Cardinality({<<a, k>> \in (DOMAIN mailbox) \X (1..MaxMail + 1) : k <= Len(mailbox[a])})

\* the thread of one account: connect, login, search; the last MaxListed
\* sequence numbers are listed.  A failed connect or login returns (0, []).
new_worker(account, connected) ==
    LET n == IF connected THEN Len(mailbox[account.id]) ELSE 0
        listed == Min(n, MaxListed)
    IN [pc |-> "fetch", account_id |-> account.id, user_id |-> account.user_id,
        listing |-> [k \in 1..listed |-> n - listed + k], pos |-> 1,
        new_emails_data |-> <<>>, attached |-> TRUE,
        seen |-> Len(mailbox[account.id]), failed |-> ~connected, raised |-> FALSE,
        after |-> IF polled[account.id].n # Len(mailbox[account.id]) THEN "none"
                  ELSE IF polled[account.id].clean THEN "clean" ELSE "partial"]

RECURSIVE spawn(_, _, _, _)
spawn(ws, batch, connects, k) ==
    IF k > Len(batch) THEN ws
    ELSE LET w == CHOOSE x \in 1..MaxWorkers :
                      ws[x].pc = "free" /\ \A y \in 1..MaxWorkers : ws[y].pc = "free" => x <= y
         IN spawn([ws EXCEPT ![w] = new_worker(batch[k], connects[k])], batch, connects, k + 1)

detach(ws, o) ==
    [w \in 1..MaxWorkers |->
        IF ws[w].pc # "free" /\ ws[w].user_id = o THEN [ws[w] EXCEPT !.attached = FALSE]
        ELSE ws[w]]

\* whether the batch under way is the last of the cycle
cycle_ends(task) == task.i + monitor_batch_size >= Len(task.accts)

\* where the loop goes after a batch: the next batch, or sleep and reload
after_batch(task, new_emails_count) ==
    IF ~cycle_ends(task)
    THEN [task EXCEPT !.pc = "spawn", !.i = @ + monitor_batch_size, !.results = 0,
                      !.count = new_emails_count]
    ELSE NewTask

\* if new_emails_count > 0: user = self.current_user; if user: user.send(...)
notify(log, user, user_id, new_emails_count) ==
    IF new_emails_count > 0 /\ user # 0
    THEN Append(log, [to |-> user, user_id |-> user_id, count |-> new_emails_count])
    ELSE log

\* except Exception: the error is logged and the task sleeps 60 seconds
on_loop_error(task) ==
    [pc |-> "backoff", accts |-> <<>>, i |-> 0, results |-> 0, count |-> 0, found |-> {}]

\* a handler that leaves the while loop: the task never runs a cycle again
after_backoff_ended(task) == task

\* the sleep is over: `while True` starts the next cycle
after_backoff(task) == NewTask

\* /webhook: a URL of the wrong form is refused; otherwise a test delivery
\* is posted and the URL is stored when the endpoint answers 204
SetWebhook(o, url, answer) ==
    /\ event_loop_free
    /\ IF ~startswith(url, WebhookPrefix)
       THEN /\ webhooks' = webhooks
            /\ webhook_command' = [user_id |-> o, url |-> url, answer |-> NoAnswer]
       ELSE /\ webhooks' = IF answer.kind = "status" /\ answer.code = NoContent
                           THEN set_webhook_url(webhooks, o, url) ELSE webhooks
            /\ webhook_command' = [user_id |-> o, url |-> url, answer |-> answer]
    /\ UNCHANGED <<emails, mailbox, workers, forward_tasks, sink, monitor_filters,
                   monitoring_tasks, loop_tasks, polled, notices, posting>>
    /\ UNCHANGED <<valVars, probeVars>>

\* /start_monitoring: "already running", "no active accounts" and "no webhook"
\* are answered without a change; otherwise start_email_monitoring is called
StartMonitoring(o) ==
    /\ event_loop_free
    /\ IF monitoring_tasks[o].pc = "off" /\ select_active(accounts, o, 1) # <<>>
          /\ select_webhook(webhooks, o) # ""
       THEN LET started == start_email_monitoring(monitoring_tasks, loop_tasks, o)
            IN /\ monitoring_tasks' = started.tasks
               /\ loop_tasks' = started.loops
       ELSE UNCHANGED <<monitoring_tasks, loop_tasks>>
    /\ UNCHANGED <<emails, mailbox, workers, forward_tasks, sink, webhooks, webhook_command,
                   monitor_filters, polled, notices, posting>>
    /\ UNCHANGED <<valVars, probeVars>>

\* a stop that does not look the owner up in monitoring_tasks
stop_monitoring_unchecked(tasks, loops, ws, user_id) ==
    [tasks |-> [tasks EXCEPT ![user_id] = NoTask],
     loops |-> [loops EXCEPT ![user_id] = @ - 1],
     workers |-> detach(ws, user_id)]

\* "not currently running" when the owner is not in monitoring_tasks;
\* otherwise task.cancel(), which also cancels the tasks of the batch the
\* loop is waiting for (their threads run on), and del monitoring_tasks[user_id]
stop_monitoring(tasks, loops, ws, user_id) ==
    IF tasks[user_id].pc = "off" THEN [tasks |-> tasks, loops |-> loops, workers |-> ws]
    ELSE [tasks |-> [tasks EXCEPT ![user_id] = NoTask],
          loops |-> [loops EXCEPT ![user_id] = @ - 1],
          workers |-> detach(ws, user_id)]

\* /stop_monitoring
StopMonitoring(o) ==
    /\ event_loop_free
    /\ LET stopped == stop_monitoring(monitoring_tasks, loop_tasks, workers, o)
       IN /\ monitoring_tasks' = stopped.tasks
          /\ loop_tasks' = stopped.loops
          /\ workers' = stopped.workers
    /\ UNCHANGED <<emails, mailbox, forward_tasks, sink, webhooks, webhook_command, monitor_filters, polled, notices, posting>>
    /\ UNCHANGED <<valVars, probeVars>>

\* the top of the loop (the accounts are loaded) or the next batch: one task
\* and one thread per account of the batch
MonitorSpawn(o) ==
    /\ event_loop_free
    /\ monitoring_tasks[o].pc \in {"load", "spawn"}
    /\ LET task == monitoring_tasks[o]
           accts == IF task.pc = "load" THEN select_active(accounts, o, 1) ELSE task.accts
           i == IF task.pc = "load" THEN 0 ELSE task.i
           batch == SubSeq(accts, i + 1, Min(i + monitor_batch_size, Len(accts)))
       IN /\ accts # <<>>
          /\ Cardinality(free_slots) >= Len(batch)
          /\ \E connects \in [1..Len(batch) -> BOOLEAN] :
                workers' = spawn(workers, batch, connects, 1)
          /\ monitoring_tasks' = [monitoring_tasks EXCEPT
                                     ![o] = [task EXCEPT !.pc = "wait", !.accts = accts,
                                                         !.i = i]]
    /\ UNCHANGED <<emails, mailbox, forward_tasks, sink, webhooks, webhook_command, monitor_filters,
                   loop_tasks, polled, notices, posting>>
    /\ UNCHANGED <<valVars, probeVars>>

\* the store cannot be read at the top of the loop (sqlite3.connect or the
\* SELECT raises): the exception is caught by the loop's handler
MonitorLoadRaise(o) ==
    /\ event_loop_free
    /\ monitoring_tasks[o].pc = "load"
    /\ monitoring_tasks' = [monitoring_tasks EXCEPT ![o] = on_loop_error(@)]
    /\ UNCHANGED <<emails, mailbox, workers, forward_tasks, sink, webhooks, webhook_command,
                   monitor_filters, loop_tasks, polled, notices, posting>>
    /\ UNCHANGED <<valVars, probeVars>>

\* the backoff sleep of the handler returns
MonitorBackoff(o) ==
    /\ event_loop_free
    /\ monitoring_tasks[o].pc = "backoff"
    /\ monitoring_tasks' = [monitoring_tasks EXCEPT ![o] = after_backoff(@)]
    /\ UNCHANGED <<emails, mailbox, workers, forward_tasks, sink, webhooks, webhook_command,
                   monitor_filters, loop_tasks, polled, notices, posting>>
    /\ UNCHANGED <<valVars, probeVars>>

\* whether a row the loop's fetches returned in this cycle is forwarded
forwarded_in_cycle(task) == \E id \in task.found : emails[id].forwarded

\* every task of the batch has returned within the timeout: the results are
\* added up; after the last batch of the cycle the notification is sent
MonitorGather(o) ==
    /\ event_loop_free
    /\ monitoring_tasks[o].pc = "wait"
    /\ attached_workers(o) = {}
    /\ LET task == monitoring_tasks[o]
           new_emails_count == task.count + task.results
       IN /\ monitoring_tasks' = [monitoring_tasks EXCEPT
                                     ![o] = after_batch(task, new_emails_count)]
          /\ notices' = IF cycle_ends(task)
                        THEN notify(notices, current_user, o, new_emails_count)
                        ELSE notices
    /\ UNCHANGED <<emails, mailbox, workers, forward_tasks, sink, webhooks, webhook_command,
                   monitor_filters, loop_tasks, polled, posting>>
    /\ UNCHANGED <<valVars, probeVars>>

\* asyncio.TimeoutError: the tasks are cancelled, their threads run on; the
\* results of the batch, those of its finished tasks too, are not added up
MonitorTimeout(o) ==
    /\ event_loop_free
    /\ monitoring_tasks[o].pc = "wait"
    /\ attached_workers(o) # {}
    /\ workers' = detach(workers, o)
    /\ LET task == monitoring_tasks[o]
       IN /\ monitoring_tasks' = [monitoring_tasks EXCEPT ![o] = after_batch(task, task.count)]
          /\ notices' = IF cycle_ends(task)
                        THEN notify(notices, current_user, o, task.count)
                        ELSE notices
    /\ UNCHANGED <<emails, mailbox, forward_tasks, sink, webhooks, webhook_command,
                   monitor_filters, loop_tasks, polled, posting>>
    /\ UNCHANGED <<valVars, probeVars>>

\* the next message of the feed arrives in the INBOX of a monitored account
Deliver(a) ==
    /\ accounts[a].status = "active"
    /\ mail_count < Min(MaxMail, Len(MailFeed))
    /\ mailbox' = [mailbox EXCEPT ![a] = Append(@, MailFeed[mail_count + 1])]
    /\ UNCHANGED <<emails, workers, forward_tasks, sink, webhooks, webhook_command, monitor_filters,
                   monitoring_tasks, loop_tasks, polled, notices, posting>>
    /\ UNCHANGED <<valVars, probeVars>>

\* a handler that gives up the rest of the listing
abort_fetch(worker) == [worker EXCEPT !.pc = "fetch", !.pos = Len(worker.listing) + 1]

\* except Exception inside the for loop: the error is logged; continue
skip_message(worker) == [worker EXCEPT !.pc = "fetch", !.pos = @ + 1]

\* one turn of the for loop up to the existence check: the fetch fails (the
\* message is skipped), or the message is stored already (skipped), or the
\* thread goes on to the INSERT
WorkerFetch(w, fetched) ==
    /\ workers[w].pc = "fetch"
    /\ workers[w].pos <= Len(workers[w].listing)
    /\ LET msg_id == workers[w].listing[workers[w].pos]
           msg == mailbox[workers[w].account_id][msg_id]
       IN workers' =
            IF ~fetched
            THEN [workers EXCEPT ![w] = [skip_message(@) EXCEPT !.failed = TRUE]]
            ELSE IF already_processed(emails, workers[w].account_id, message_id_of(msg, msg_id))
                 THEN [workers EXCEPT ![w].pos = @ + 1]
                 ELSE [workers EXCEPT ![w].pc = "insert"]
    /\ UNCHANGED <<emails, mailbox, forward_tasks, sink, webhooks, webhook_command, monitor_filters,
                   monitoring_tasks, loop_tasks, polled, notices, posting>>
    /\ UNCHANGED <<valVars, probeVars>>

\* the INSERT, commit and lastrowid; an INSERT that raises skips the message
WorkerInsert(w) ==
    /\ workers[w].pc = "insert"
    /\ LET msg_id == workers[w].listing[workers[w].pos]
           msg == mailbox[workers[w].account_id][msg_id]
           done == insert_email(emails, email_row(workers[w].account_id, workers[w].user_id,
                                                  message_id_of(msg, msg_id), msg.sender))
       IN /\ emails' = done.table
          /\ workers' =
               IF done.raised
               THEN [workers EXCEPT ![w] = [skip_message(@) EXCEPT !.raised = TRUE]]
               ELSE [workers EXCEPT ![w].pc = "fetch", ![w].pos = @ + 1,
                                    ![w].new_emails_data =
                                        Append(@, [id |-> done.lastrowid, sender |-> msg.sender,
                                                   user_id |-> workers[w].user_id])]
    /\ UNCHANGED <<mailbox, forward_tasks, sink, webhooks, webhook_command, monitor_filters,
                   monitoring_tasks, loop_tasks, polled, notices, posting>>
    /\ UNCHANGED <<valVars, probeVars>>

\* mail.logout() and the return of new_emails_data; a logout that raises is
\* caught by the outer handler, which returns (0, [])
fetch_result(worker, logged_out) == IF logged_out THEN worker.new_emails_data ELSE <<>>

\* the ids of the rows of a fetch result
ids_of(emails_data) == {emails_data[k].id : k \in 1..Len(emails_data)}

\* the thread returns (len(new_emails_data), new_emails_data); the task that
\* awaits it, unless cancelled, creates one forward task per new message and
\* returns the count to the gather of its batch
WorkerReturn(w, logged_out) ==
    /\ event_loop_free
    /\ workers[w].pc = "fetch"
    /\ workers[w].pos > Len(workers[w].listing)
    /\ LET worker == workers[w]
           emails_data == fetch_result(worker, logged_out)
       IN /\ forward_tasks' = IF worker.attached THEN forward_tasks \o emails_data
                              ELSE forward_tasks
          /\ monitoring_tasks' =
               IF worker.attached
               THEN [monitoring_tasks EXCEPT
                        ![worker.user_id].results = @ + Len(emails_data),
                        ![worker.user_id].found = @ \cup ids_of(emails_data)]
               ELSE monitoring_tasks
    /\ polled' = [polled EXCEPT ![workers[w].account_id] =
                     [n |-> workers[w].seen, clean |-> ~workers[w].failed]]
    /\ workers' = [workers EXCEPT ![w] = Free]
    /\ UNCHANGED <<emails, mailbox, sink, webhooks, webhook_command, monitor_filters,
                   loop_tasks, notices, posting>>
    /\ UNCHANGED <<valVars, probeVars>>

\* a forward that posts to the owner's webhook whatever the sender
webhook_of_unfiltered(filters, table, user_id, email_data) == select_webhook(table, user_id)

\* the two early returns of forward_email_to_webhook: the URL the message is
\* posted to, "" when the sender is not monitored or no webhook is active
webhook_of(filters, table, user_id, email_data) ==
    IF ~should_monitor_sender(filters, user_id, email_data.sender) THEN ""
    ELSE select_webhook(table, user_id)

\* forward_email_to_webhook, which runs without yielding: the filter, the
\* webhook lookup, the POST and the forwarded flag
Forward(answer) ==
    /\ event_loop_free
    /\ forward_tasks # <<>>
    /\ LET email_data == Head(forward_tasks)
           webhook_url == webhook_of(monitor_filters, webhooks, email_data.user_id, email_data)
       IN IF webhook_url # ""
          THEN /\ sink' = Append(sink, [id |-> email_data.id, url |-> webhook_url,
                                        answer |-> answer])
               /\ emails' = mark_forwarded(emails, email_data.id, answer)
          ELSE UNCHANGED <<sink, emails>>
    /\ forward_tasks' = Tail(forward_tasks)
    /\ UNCHANGED <<mailbox, workers, webhooks, webhook_command, monitor_filters,
                   monitoring_tasks, loop_tasks, polled, notices, posting>>
    /\ UNCHANGED <<valVars, probeVars>>

\* forward_email_to_webhook up to its first HTTP request: the early returns,
\* or the calls of translate_text and the POST, which are made with the
\* blocking requests library on the thread of the event loop
ForwardCall ==
    /\ event_loop_free
    /\ forward_tasks # <<>>
    /\ LET email_data == Head(forward_tasks)
           webhook_url == webhook_of(monitor_filters, webhooks, email_data.user_id, email_data)
       IN posting' = IF webhook_url # ""
                     THEN [id |-> email_data.id, user_id |-> email_data.user_id,
                           url |-> webhook_url]
                     ELSE NoPost
    /\ forward_tasks' = Tail(forward_tasks)
    /\ UNCHANGED <<emails, mailbox, workers, sink, webhooks, webhook_command, monitor_filters,
                   monitoring_tasks, loop_tasks, polled, notices>>
    /\ UNCHANGED <<valVars, probeVars>>

\* the endpoint answers, or the request times out or fails: the forwarded
\* flag is written on 204 and the coroutine ends
ForwardAnswer(answer) ==
    /\ posting # NoPost
    /\ sink' = Append(sink, [id |-> posting.id, url |-> posting.url, answer |-> answer])
    /\ emails' = mark_forwarded(emails, posting.id, answer)
    /\ posting' = NoPost
    /\ UNCHANGED <<mailbox, workers, forward_tasks, webhooks, webhook_command, monitor_filters,
                   monitoring_tasks, loop_tasks, polled, notices>>
    /\ UNCHANGED <<valVars, probeVars>>

MonitorAdd(o, address) ==
    /\ event_loop_free
    /\ monitor_filters' = monitor_add(monitor_filters, o, address)
    /\ UNCHANGED <<emails, mailbox, workers, forward_tasks, sink, webhooks, webhook_command,
                   monitoring_tasks, loop_tasks, polled, notices, posting>>
    /\ UNCHANGED <<valVars, probeVars>>

MonitorRemove(o, address) ==
    /\ event_loop_free
    /\ monitor_filters' = monitor_remove(monitor_filters, o, address)
    /\ UNCHANGED <<emails, mailbox, workers, forward_tasks, sink, webhooks, webhook_command,
                   monitoring_tasks, loop_tasks, polled, notices, posting>>
    /\ UNCHANGED <<valVars, probeVars>>

MonitorClear(o) ==
    /\ event_loop_free
    /\ monitor_filters' = monitor_clear(monitor_filters, o)
    /\ UNCHANGED <<emails, mailbox, workers, forward_tasks, sink, webhooks, webhook_command,
                   monitoring_tasks, loop_tasks, polled, notices, posting>>
    /\ UNCHANGED <<valVars, probeVars>>

\* the accounts table when both owners have an active account
BothActive == [k \in 1..Len(MonitorAccounts) |-> [MonitorAccounts[k] EXCEPT !.status = "active"]]

\* the bot with its accounts validated; user is the last one to have run
\* /upload_emails since the process started (0: nobody has)
InitMonitorWith(table, user) ==
    /\ accounts = table
    /\ login_in_progress = [o \in Owners |-> FALSE]
    /\ stop_login_requested = [o \in Owners |-> FALSE]
    /\ login_stats = [o \in Owners |-> NoStats]
    /\ current_user = user
    /\ runs = <<>>
    /\ InitProbeIdle
    /\ emails = <<>>
    /\ mailbox = [a \in 1..Len(MonitorAccounts) |-> <<>>]
    /\ workers = [w \in 1..MaxWorkers |-> Free]
    /\ forward_tasks = <<>>
    /\ sink = <<>>
    /\ webhooks = ConfiguredWebhooks
    /\ webhook_command = NoCommand
    /\ monitor_filters \in FilterSamples
    /\ monitoring_tasks = [o \in Owners |-> NoTask]
    /\ loop_tasks = [o \in Owners |-> 0]
    /\ polled = [a \in 1..Len(MonitorAccounts) |-> NotPolled]
    /\ notices = <<>>
    /\ posting = NoPost

InitMonitor == InitMonitorWith(MonitorAccounts, 0)

\* the owner of the monitored account is the one who uploaded it, and has
\* named one sender to monitor
InitCycle == InitMonitorWith(MonitorAccounts, 1) /\ monitor_filters # {}

\* both owners have an active account and a webhook, and no sender filter
InitBlocking == InitMonitorWith(BothActive, 0) /\ monitor_filters = {}

NextMonitor ==
    \/ \E o \in Owners : StartMonitoring(o)
    \/ \E o \in Owners : StopMonitoring(o)
    \/ \E o \in Owners : MonitorSpawn(o)
    \/ \E o \in Owners : MonitorLoadRaise(o)
    \/ \E o \in Owners : MonitorBackoff(o)
    \/ \E o \in Owners : MonitorGather(o)
    \/ \E o \in Owners : MonitorTimeout(o)
    \/ \E a \in DOMAIN mailbox : Deliver(a)
    \/ \E w \in 1..MaxWorkers, fetched \in BOOLEAN : WorkerFetch(w, fetched)
    \/ \E w \in 1..MaxWorkers : WorkerInsert(w)
    \/ \E w \in 1..MaxWorkers, logged_out \in BOOLEAN : WorkerReturn(w, logged_out)
    \/ \E answer \in SinkAnswers : Forward(answer)

SpecMonitor == InitMonitor /\ [][NextMonitor]_vars

\* The monitoring loops alone, on mailboxes that receive no mail: the
\* commands, the cycles and their errors, and the fetches returning.  asyncio
\* wakes a sleeping task when its delay has passed.
NextLoop ==
    \/ \E o \in Owners : StartMonitoring(o)
    \/ \E o \in Owners : StopMonitoring(o)
    \/ \E o \in Owners : MonitorSpawn(o)
    \/ \E o \in Owners : MonitorLoadRaise(o)
    \/ \E o \in Owners : MonitorBackoff(o)
    \/ \E o \in Owners : MonitorGather(o)
    \/ \E o \in Owners : MonitorTimeout(o)
    \/ \E w \in 1..MaxWorkers, logged_out \in BOOLEAN : WorkerReturn(w, logged_out)

SpecLoopLive ==
    InitMonitor /\ [][NextLoop]_vars /\ \A o \in Owners : WF_vars(MonitorBackoff(o))

(***************************************************************************)
(* The settings commands: /webhook and /monitor add, remove, clear.        *)
(***************************************************************************)
NextSettings ==
    \/ \E o \in Owners, url \in Urls, answer \in SinkAnswers : SetWebhook(o, url, answer)
    \/ \E o \in Owners, address \in Addresses : MonitorAdd(o, address)
    \/ \E o \in Owners, address \in Addresses : MonitorRemove(o, address)
    \/ \E o \in Owners : MonitorClear(o)

SpecSettings == Init /\ [][NextSettings]_vars

(***************************************************************************)
(* Validation runs of owners who have a webhook, with /start_monitoring    *)
(* and /stop_monitoring: the tail of a run and the command both start the  *)
(* owner's monitoring loop.                                                *)
(***************************************************************************)
StartSamples == { <<"a@x.com:p1", "malformed-line", "b@y.com:p2">> }

InitStart ==
    /\ InitValidation
    /\ InitProbeIdle
    /\ emails = <<>>
    /\ mailbox = <<>>
    /\ workers = [w \in 1..MaxWorkers |-> Free]
    /\ forward_tasks = <<>>
    /\ sink = <<>>
    /\ webhooks = ConfiguredWebhooks
    /\ webhook_command = NoCommand
    /\ monitor_filters = {}
    /\ monitoring_tasks = [o \in Owners |-> NoTask]
    /\ loop_tasks = [o \in Owners |-> 0]
    /\ polled = <<>>
    /\ notices = <<>>
    /\ posting = NoPost

NextStart ==
    \/ \E o \in Owners, lines \in StartSamples : Upload(o, lines)
    \/ \E r \in 1..Len(runs) : RunInit(r)
    \/ \E r \in 1..Len(runs) : RunIngest(r)
    \/ \E r \in 1..Len(runs) : RunLoopExit(r)
    \/ \E r \in 1..Len(runs) : RunLoopStop(r)
    \/ \E r \in 1..Len(runs) : RunStopped(r)
    \/ \E r \in 1..Len(runs) : RunDispatch(r)
    \/ \E r \in 1..Len(runs) : RunGather(r)
    \/ \E o \in Owners : StopValidation(o)
    \/ \E o \in Owners : StartMonitoring(o)
    \/ \E o \in Owners : StopMonitoring(o)

SpecStart == InitStart /\ [][NextStart]_vars

(***************************************************************************)
(* The claims.                                                             *)
(***************************************************************************)
run_account_status(run, k) == accounts[run.accts[k].id].status

\* C1 as stated: whenever a run has ended, none of the accounts it selected
\* is still pending.
C1_NoPendingAfterRun ==
    \A r \in 1..Len(runs) :
        runs[r].pc = "done" =>
            \A k \in 1..Len(runs[r].accts) : run_account_status(runs[r], k) \in TerminalStatuses

\* C1 as amended: every account of a batch the run has dispatched and applied
\* has a terminal status, and when a run has ended without being stopped by
\* request none of the accounts it selected is still pending.
C1_NoPendingAfterCompleteRun ==
    \A r \in 1..Len(runs) :
        /\ \A k \in 1..Len(runs[r].accts) :
              k <= runs[r].i => run_account_status(runs[r], k) \in TerminalStatuses
        /\ (runs[r].pc = "done" /\ ~runs[r].stopped) =>
              \A k \in 1..Len(runs[r].accts) :
                  run_account_status(runs[r], k) \in TerminalStatuses

\* a run of several batches has ended unstopped with a failed and an active account
C1_Witness ==
    \E r \in 1..Len(runs) :
        /\ runs[r].pc = "done" /\ ~runs[r].stopped
        /\ Len(runs[r].accts) > batch_size
        /\ \E k \in 1..Len(runs[r].accts) : run_account_status(runs[r], k) = "failed"
        /\ \E k \in 1..Len(runs[r].accts) : run_account_status(runs[r], k) = "active"

\* C2: once a stop has been requested while a run is executing, that run
\* dispatches no further batch, and the batch that is running when the run
\* resumes leaves every one of its accounts with a terminal status.
C2_StopHaltsDispatch ==
    [][\A r \in 1..Len(runs) :
          /\ runs[r].stop_asked => ~(runs[r].pc = "loop" /\ runs'[r].pc = "gather")
          /\ (runs[r].pc = "gather" /\ runs'[r].pc # "gather") =>
                \A k \in 1..Len(batch_of(runs[r])) :
                    accounts'[batch_of(runs[r])[k].id].status \in TerminalStatuses]_vars

\* C9: a line is a credential line when it has a separator, a non-empty
\* address holding an '@' and a non-empty secret; every other line is to be
\* skipped.  Once the ingest of a run has ended, every credential line of its
\* input has an account of the run's owner.
CredentialLine(line) ==
    /\ Contains(line, ":")
    /\ Len(strip(split1(strip(line), ":")[1])) > 0
    /\ Contains(split1(strip(line), ":")[1], "@")
    /\ Len(strip(split1(strip(line), ":")[2])) > 0

C9_IngestSkipsBadLines ==
    \A r \in 1..Len(runs) :
        runs[r].pc \notin {"created", "ingest"} =>
            \A n \in 1..Len(runs[r].lines) :
                CredentialLine(runs[r].lines[n]) =>
                    \E id \in 1..Len(accounts) :
                        /\ accounts[id].user_id = runs[r].owner
                        /\ accounts[id].email = strip(split1(strip(runs[r].lines[n]), ":")[1])

\* C10: a login failure whose text holds an authentication-failure marker and
\* a two-factor or app-password marker (the server text of the scenario
\* included) is classified 2FA_REQUIRED: status '2fa', counter twofa.
ClaimTwoFactorText(text) ==
    /\ is_auth_failure(lower(text))
    /\ \/ has_two_factor_keyword(lower(text))
       \/ Contains(lower(text), "app-specific password")

C10_TwoFactorClassified ==
    (/\ p_status \notin {"idle", "pending"}
     /\ Len(p_resps) > 0
     /\ p_resps[Len(p_resps)].kind = "imap_error"
     /\ ClaimTwoFactorText(p_resps[Len(p_resps)].text))
        => /\ p_status = "2fa"
           /\ result_counter(test_email_connection(p_account, p_resps)) = "twofa"

\* the message a fetch thread is handling
current_key(worker) ==
    message_id_of(mailbox[worker.account_id][worker.listing[worker.pos]],
                  worker.listing[worker.pos])

same_key(id, other) ==
    /\ emails[id].account_id = emails[other].account_id
    /\ emails[id].message_id = emails[other].message_id

\* C3: no two rows of the emails table have the same (account, message-id),
\* also when two fetches of one account overlap and both pass the existence
\* check before either inserts.
C3_UniqueMessageKey ==
    \A id \in 1..Len(emails), other \in 1..Len(emails) : same_key(id, other) => id = other

\* a fetch passed the existence check, and its INSERT raised on the row an
\* overlapping fetch had stored in between
C3_Witness ==
    \E w \in 1..MaxWorkers :
        /\ workers[w].pc # "free"
        /\ workers[w].raised
        /\ Len(emails) > 0

C5_RefetchLeavesStoreAlone ==
    [][\A w \in 1..MaxWorkers :
          (/\ workers[w].pc # "free"
           /\ workers'[w].pc # "free"
           /\ workers'[w].pos = workers[w].pos + 1
           /\ already_processed(emails, workers[w].account_id, current_key(workers[w])))
              => /\ emails' = emails
                 /\ workers'[w].new_emails_data = workers[w].new_emails_data]_vars

\* a fetch has fetched, and passed over, the first message it listed, whose
\* stored copy has been forwarded
C5_Witness ==
    \E w \in 1..MaxWorkers :
        /\ workers[w].pc # "free"
        /\ ~workers[w].failed
        /\ workers[w].pos > 1
        /\ workers[w].new_emails_data = <<>>
        /\ \E id \in 1..Len(emails) :
              /\ emails[id].account_id = workers[w].account_id
              /\ emails[id].message_id =
                     message_id_of(mailbox[workers[w].account_id][workers[w].listing[1]],
                                   workers[w].listing[1])
              /\ emails[id].forwarded

\* the deliveries of the rows with the key of row id: made, queued as forward
\* tasks, or still in the new-message list of a fetch
handles(id) ==
    {<<"sink", k, 0>> : k \in {k \in 1..Len(sink) :
        sink[k].id \in 1..Len(emails) /\ same_key(id, sink[k].id)}}
    \cup {<<"task", k, 0>> : k \in {k \in 1..Len(forward_tasks) :
        forward_tasks[k].id \in 1..Len(emails) /\ same_key(id, forward_tasks[k].id)}}
    \cup {<<"fetch", h[1], h[2]>> : h \in {h \in (1..MaxWorkers) \X (1..MaxMail + 1) :
        /\ workers[h[1]].pc # "free"
        /\ h[2] <= Len(workers[h[1]].new_emails_data)
        /\ workers[h[1]].new_emails_data[h[2]].id \in 1..Len(emails)
        /\ same_key(id, workers[h[1]].new_emails_data[h[2]].id)}}

\* C6: over any sequence of poll cycles a stored message is handed on for
\* delivery at most once: for each (account, message-id) there is at most one
\* delivery made, queued or about to be queued, whatever the endpoint answered.
C6_AtMostOneDelivery ==
    \A id \in 1..Len(emails) : Cardinality(handles(id)) <= 1

\* the one delivery of a message failed, and a later fetch has gone through
\* the mailbox without picking the message up again
C6_Witness ==
    \E id \in 1..Len(emails), w \in 1..MaxWorkers :
        /\ \E k \in 1..Len(sink) : sink[k].id = id /\ sink[k].answer.kind = "raise"
        /\ workers[w].pc # "free"
        /\ workers[w].account_id = emails[id].account_id
        /\ workers[w].after # "none"
        /\ ~workers[w].failed
        /\ Len(workers[w].listing) > 0
        /\ workers[w].pos > Len(workers[w].listing)

accepted(entry) == entry.answer.kind = "status" /\ entry.answer.code = NoContent

\* C7: a forwarded flag is set only in the step in which the endpoint answers
\* 204 to the delivery of that message; a delivery answered otherwise, or one
\* that raises, changes no row, and no delivery touches the monitoring tasks.
C7_ForwardedOnlyAfter204 ==
    [][/\ \A id \in 1..Len(emails) :
             (emails'[id].forwarded /\ ~emails[id].forwarded)
                 => /\ sink' = Append(sink, sink'[Len(sink')])
                    /\ sink'[Len(sink')].id = id
                    /\ accepted(sink'[Len(sink')])
       /\ sink' # sink
             => /\ monitoring_tasks' = monitoring_tasks
                /\ ~accepted(sink'[Len(sink')]) => emails' = emails]_vars

\* a delivery answered with another status and a delivery that raised, their
\* messages not forwarded, and a message forwarded after a 204
C7_Witness ==
    /\ \E k \in 1..Len(sink) :
          sink[k].answer.kind = "status" /\ ~accepted(sink[k]) /\ ~emails[sink[k].id].forwarded
    /\ \E k \in 1..Len(sink) :
          sink[k].answer.kind = "raise" /\ ~emails[sink[k].id].forwarded

\* C8: an owner without filter entries has every address allowed; an owner
\* with one entry has exactly the addresses allowed that equal the entry
\* ignoring case; the entries of the other owners make no difference.
C8_SenderFilter ==
    \A o \in Owners :
        LET mine == {f \in monitor_filters : f.user_id = o}
        IN /\ mine = {} =>
                 \A address \in Addresses : should_monitor_sender(monitor_filters, o, address)
           /\ Cardinality(mine) = 1 =>
                 \A address \in Addresses :
                     should_monitor_sender(monitor_filters, o, address)
                         <=> \E f \in mine : lower(f.sender_email) = lower(address)
           /\ \A address \in Addresses :
                 should_monitor_sender(monitor_filters, o, address)
                     <=> should_monitor_sender(mine, o, address)

\* two owners with one entry each
C8_Witness ==
    \E o \in Owners, other \in Owners :
        /\ o # other
        /\ {f \in monitor_filters : f.user_id = o} = {[user_id |-> o, sender_email |-> "news@shop.com"]}
        /\ {f \in monitor_filters : f.user_id = other} = {[user_id |-> other, sender_email |-> "bank@b.io"]}

\* the generic fallbacks of an address, in the order the resolver lists them
GenericFallbacks(email_addr) ==
    LET domain == split(email_addr, "@")[2]
    IN << <<"imap." \o domain, ImapPort>>, <<"mail." \o domain, ImapPort>>,
          <<"imap." \o domain, PlainPort>>, <<"mail." \o domain, PlainPort>> >>

\* C11: while an account is probed, the first candidate is the account's
\* stored endpoint, the four generic fallbacks follow it in their order, and
\* no (host, port) pair is probed a second time.
C11_EndpointCandidates ==
    p_status = "pending" =>
        LET servers == fallback_servers(p_account)
            generic == GenericFallbacks(p_account.email)
        IN /\ servers[1] = <<p_account.imap_server, p_account.imap_port>>
           /\ \E at \in [1..4 -> 2..Len(servers)] :
                 /\ \A g \in 1..4 : servers[at[g]] = generic[g]
                 /\ \A g \in 1..3 : at[g] < at[g + 1]
           /\ \A k \in 1..Len(p_resps), later \in 1..Len(p_resps) :
                 k < later => servers[k] # servers[later]

\* C12: in every state an owner has at most one monitoring loop, the one
\* registered in monitoring_tasks; and a step taken while the owner's loop is
\* registered, a start among them, creates no loop of that owner and, unless
\* it is a stop, leaves the registered task as it is.
C12_StartIsIdempotent ==
    /\ [](\A o \in Owners :
             loop_tasks[o] = IF monitoring_tasks[o].pc # "off" THEN 1 ELSE 0)
    /\ [][\A o \in Owners :
             monitoring_tasks[o].pc # "off"
                => /\ loop_tasks'[o] <= loop_tasks[o]
                   /\ monitoring_tasks'[o].pc # "off"
                         => monitoring_tasks'[o] = monitoring_tasks[o]]_vars

\* the tail of a run called start_email_monitoring for an owner whose loop
\* was running, and the loop is still the owner's only one
C12_Witness ==
    \E r \in 1..Len(runs) :
        /\ runs[r].pc = "done"
        /\ runs[r].autostart = "running"
        /\ monitoring_tasks[runs[r].owner].pc # "off"
        /\ loop_tasks[runs[r].owner] = 1

\* the URL an owner's deliveries go to, read as the forward step reads it
active_urls(table, o) == {row.url : row \in {row \in table : row.user_id = o /\ row.is_active = 1}}

\* C13: every owner has at most one active sink URL; a /webhook command whose
\* test delivery the endpoint answers with 204 makes its URL the owner's sink,
\* replacing the previous one; a command answered otherwise, or whose delivery
\* raises, or whose URL is refused, leaves the stored sink as it was; and no
\* command changes the sink of another owner.
C13_SinkLastWriteWins ==
    /\ [](\A o \in Owners : Cardinality(active_urls(webhooks, o)) <= 1)
    /\ [][webhook_command' # webhook_command =>
             \A o \in Owners :
                 active_urls(webhooks', o) =
                     IF /\ o = webhook_command'.user_id
                        /\ webhook_command'.answer = [kind |-> "status", code |-> NoContent]
                     THEN {webhook_command'.url}
                     ELSE active_urls(webhooks, o)]_vars

\* an owner's second URL has replaced the first, and a later command of the
\* owner failed its test delivery
C13_Witness ==
    /\ webhook_command.user_id = 1
    /\ webhook_command.url = "https://discord.com/api/webhooks/1"
    /\ webhook_command.answer.kind = "raise"
    /\ select_webhook(webhooks, 1) = "https://discord.com/api/webhooks/2"
    /\ select_webhook(webhooks, NumOwners) = "https://discord.com/api/webhooks/1"

\* C14: whatever the probes of a batch return, the step that ends the batch
\* writes a terminal status to every account of the batch, counts every
\* account of the batch as processed, and takes the run back to its batch
\* loop, positioned at the next batch.
C14_FailuresDoNotAbort ==
    [][\A r \in 1..Len(runs) :
          (runs[r].pc = "gather" /\ runs'[r].pc # "gather")
             => /\ runs'[r].pc = "loop"
                /\ runs'[r].i = runs[r].i + batch_size
                /\ \A k \in 1..Len(batch_of(runs[r])) :
                      accounts'[batch_of(runs[r])[k].id].status \in TerminalStatuses
                /\ "processed" \in DOMAIN login_stats'[runs[r].owner]
                /\ login_stats'[runs[r].owner].processed
                      = login_stats[runs[r].owner].processed + Len(batch_of(runs[r]))]_vars

\* C15: a poll cycle that raises leaves the owner's loop alive and registered,
\* in its backoff sleep; from the backoff the loop goes nowhere but to the top
\* of a new cycle, unless stop_monitoring cancels it; and a loop in backoff
\* eventually is at the top of a new cycle or has been cancelled.
C15_LoopSurvivesErrors ==
    /\ [][\A o \in Owners :
             /\ (monitoring_tasks[o].pc = "load" /\ monitoring_tasks'[o].pc = "backoff")
                    => loop_tasks'[o] = 1
             /\ (monitoring_tasks[o].pc = "backoff" /\ monitoring_tasks'[o].pc # "backoff")
                    => \/ monitoring_tasks'[o].pc = "load" /\ loop_tasks'[o] = 1
                       \/ monitoring_tasks'[o].pc = "off" /\ loop_tasks'[o] = 0]_vars
    /\ \A o \in Owners :
          (monitoring_tasks[o].pc = "backoff") ~> (monitoring_tasks[o].pc \in {"load", "off"})

\* a loop is in its backoff sleep after a cycle that raised, with a fetch of an
\* earlier cycle of the owner still running
C15_Witness ==
    \E o \in Owners, w \in 1..MaxWorkers :
        /\ monitoring_tasks[o].pc = "backoff"
        /\ workers[w].pc # "free"
        /\ workers[w].user_id = o

\* what the k-th candidate of the probe under way yielded
candidate_outcome(k) ==
    attempt(p_account, fallback_servers(p_account)[k], p_resps[k], k)

\* C16: a candidate is tried only when every candidate before it in the list
\* has been tried and none of them yielded an outcome (Success,
\* InvalidCredentials, RateLimited, TwoFactorRequired, TransportError); the
\* probe returns the outcome of the last candidate tried, and returns "all
\* attempts failed" only when every candidate of the list was tried without
\* an outcome.
C16_ProbeFallthrough ==
    [][/\ p_resps' # p_resps
            => /\ p_resps' = Append(p_resps, p_resps'[Len(p_resps')])
               /\ Len(p_resps) < Len(fallback_servers(p_account))
               /\ \A k \in 1..Len(p_resps) : candidate_outcome(k).message = "continue"
       /\ (p_status = "pending" /\ p_status' # "pending")
            => /\ Len(p_resps) > 0
               /\ \A k \in 1..(Len(p_resps) - 1) : candidate_outcome(k).message = "continue"
               /\ IF candidate_outcome(Len(p_resps)).message # "continue"
                  THEN /\ test_email_connection(p_account, p_resps)
                             = candidate_outcome(Len(p_resps))
                       /\ p_status' = result_status(candidate_outcome(Len(p_resps)))
                  ELSE /\ Len(p_resps) = Len(fallback_servers(p_account))
                       /\ test_email_connection(p_account, p_resps).message
                             = "All connection attempts failed"
                       /\ p_status' = "failed"]_vars

\* the third candidate yielded a transport error after two candidates without
\* an outcome, and the probe returned it
C16_Witness ==
    /\ p_status = "failed"
    /\ Len(p_resps) = 3
    /\ p_resps[1].kind = "ssl_error"
    /\ p_resps[2].text = "[Errno 111] Connection refused"
    /\ p_resps[3].text = "timed out"

\* a transport or protocol error that is not an authentication failure, a
\* rate limit, an unknown-host or connection-refused error or a TLS failure
ClaimTransportError(resp) ==
    /\ resp.kind \in {"imap_error", "exception"}
    /\ ~is_auth_failure(lower(resp.text))
    /\ ~Contains(lower(resp.text), "too many simultaneous connections")
    /\ ~Contains(lower(resp.text), "name or service not known")
    /\ ~Contains(lower(resp.text), "connection refused")

\* C17: when the candidate tried last answered with such an error, the probe
\* has returned "Connection error: <detail>" for the account: no further
\* candidate is awaited.
C17_TransportErrorTerminal ==
    (/\ p_status = "pending"
     /\ Len(p_resps) > 0
     /\ ClaimTransportError(p_resps[Len(p_resps)]))
        => test_email_connection(p_account, p_resps).message
               = "Connection error: " \o p_resps[Len(p_resps)].text

\* an unknown-host or connection-refused error, or a TLS-layer failure
ClaimRecoverable(resp) ==
    \/ resp.kind = "ssl_error"
    \/ /\ resp.kind = "exception"
       /\ \/ Contains(lower(resp.text), "name or service not known")
          \/ Contains(lower(resp.text), "connection refused")

C19_OneStatusPerRun ==
    \A r \in 1..Len(runs) :
        /\ \A k \in 1..Len(runs[r].probed), later \in 1..Len(runs[r].probed) :
              runs[r].probed[k] = runs[r].probed[later] => k = later
        /\ Len(runs[r].written) <= Len(runs[r].probed)
        /\ \A k \in 1..Len(runs[r].written) :
              /\ runs[r].written[k] = runs[r].probed[k]
              /\ accounts[runs[r].written[k]].status \in TerminalStatuses
        /\ \A k \in 1..Len(runs[r].probed) :
              \E n \in 1..Len(runs[r].accts) : runs[r].accts[n].id = runs[r].probed[k]

\* a run has gone through two batches and written the statuses of both
C19_Witness ==
    \E r \in 1..Len(runs) :
        /\ runs[r].pc = "done"
        /\ Len(runs[r].accts) > batch_size
        /\ Len(runs[r].written) = Len(runs[r].accts)

\* the number of the accounts of a run that hold a status
count_status(run, status) ==
    Cardinality({k \in 1..Len(run.accts) : accounts[run.accts[k].id].status = status})

\* C20: at every batch boundary of a run the owner's counters satisfy
\* processed = successful + failed + twofa, processed is the number of
\* accounts the run has written, and successful, failed and twofa are the
\* numbers of the run's accounts with status active, failed and 2fa.
C20_RunCounters ==
    \A r \in 1..Len(runs) :
        runs[r].pc \in {"loop", "stopping"} =>
            LET stats == login_stats[runs[r].owner]
            IN /\ {"successful", "failed", "twofa", "processed"} \subseteq DOMAIN stats
               /\ stats.processed = stats.successful + stats.failed + stats.twofa
               /\ stats.processed = Len(runs[r].written)
               /\ stats.successful = count_status(runs[r], "active")
               /\ stats.failed = count_status(runs[r], "failed")
               /\ stats.twofa = count_status(runs[r], "2fa")

\* what an embed would show of the owner's counters, to compare two moments
counters_shown(stats) == update_status_embed(stats, 0, "batch")

\* C21: the step in which a run takes the snapshot of a batch has written a
\* terminal status to every account of the batch and has counted every one of
\* them (processed and one of successful, failed, twofa each), and the
\* snapshot shows the counters as they are after that step.
C21_SnapshotAfterBatchApplied ==
    [][\A r \in 1..Len(runs) :
          (runs[r].pc = "gather" /\ runs'[r].shown # runs[r].shown)
             => LET batch == batch_of(runs[r])
                    before == counters_shown(login_stats[runs[r].owner])
                    after == counters_shown(login_stats'[runs[r].owner])
                IN /\ \A k \in 1..Len(batch) :
                         accounts'[batch[k].id].status \in TerminalStatuses
                   /\ runs'[r].written
                         = runs[r].written \o [k \in 1..Len(batch) |-> batch[k].id]
                   /\ after.processed = before.processed + Len(batch)
                   /\ after.successful + after.failed + after.twofa
                         = before.successful + before.failed + before.twofa + Len(batch)
                   /\ runs'[r].snapshot
                         = update_status_embed(login_stats'[runs[r].owner],
                                               Len(runs[r].accts), "batch")]_vars

\* the snapshot of a full batch shows one account active and one failed
C21_Witness ==
    \E r \in 1..Len(runs) :
        /\ runs[r].pc = "loop"
        /\ runs[r].snapshot.at = "batch"
        /\ runs[r].snapshot.processed = batch_size
        /\ runs[r].snapshot.successful = 1
        /\ runs[r].snapshot.failed = 1
        /\ runs[r].snapshot.total > batch_size

\* C22: every step that completes a batch of a run emits a snapshot, and for
\* every multiple of progress_every that the processed count reaches while
\* the batch is applied, a snapshot showing that count is emitted.
C22_ProgressCadence ==
    [][\A r \in 1..Len(runs) :
          (runs[r].pc = "gather" /\ runs'[r].pc = "loop")
             => /\ runs'[r].shown = runs[r].shown + 1
                /\ \A v \in (login_stats[runs[r].owner].processed + 1)
                               ..login_stats'[runs[r].owner].processed :
                      v % progress_every = 0
                         => /\ runs'[r].shown # runs[r].shown
                            /\ runs'[r].snapshot.processed = v]_vars

\* the stored endpoint of an account row
stored_endpoint(account) == <<account.imap_server, account.imap_port>>

\* C23: when a probe ends with a success, the account's stored endpoint is
\* afterwards the candidate that succeeded and nothing else of the row has
\* changed; no write is issued when that candidate is the first one or equals
\* the stored endpoint; a probe that ends otherwise, the one whose write the
\* store refused included, leaves the row as it was; and while the probe is
\* under way the row is not touched.
C23_StickyEndpoint ==
    [][/\ (p_status = "pending" /\ p_status' # "pending")
            => LET succeeded == fallback_servers(p_account)[Len(p_resps)]
                   result == test_email_connection(p_account, p_resps)
               IN IF p_status' = "active"
                  THEN /\ stored_endpoint(p_account') = succeeded
                       /\ p_account' = [p_account EXCEPT !.imap_server = succeeded[1],
                                                         !.imap_port = succeeded[2]]
                       /\ (Len(p_resps) = 1 \/ succeeded = stored_endpoint(p_account))
                             => result.sticky = <<>>
                  ELSE /\ p_account' = p_account
                       /\ result.sticky = <<>>
       /\ p_status' = p_status => p_account' = p_account]_vars

\* the first three candidates gave no outcome, the fourth succeeded, and the
\* stored endpoint of the account is now the fourth candidate
C23_Witness ==
    /\ p_status = "active"
    /\ Len(p_resps) = 4
    /\ p_resps[4].kind = "ok"
    /\ p_account.email = "c@gmail.com"
    /\ stored_endpoint(p_account) = <<"mail.gmail.com", ImapPort>>

\* C24: the step that stops a running loop leaves the owner without handle and
\* without loop, and the fetches the loop had spawned cut off from it; while
\* the owner has no handle no fetch is spawned for the owner and the only
\* change of the entry is a start, which registers a fresh loop at the top
\* of its first cycle; and a stop for an owner without handle changes
\* nothing.
C24_StopIsImmediate ==
    /\ [](\A o \in Owners :
             monitoring_tasks[o].pc = "off"
                => /\ loop_tasks[o] = 0
                   /\ attached_workers(o) = {}
                   /\ stop_monitoring(monitoring_tasks, loop_tasks, workers, o)
                         = [tasks |-> monitoring_tasks, loops |-> loop_tasks,
                            workers |-> workers])
    /\ [][\A o \in Owners :
             /\ (monitoring_tasks[o].pc # "off" /\ monitoring_tasks'[o].pc = "off")
                   => /\ monitoring_tasks'[o] = NoTask
                      /\ loop_tasks'[o] = 0
                      /\ workers' = detach(workers, o)
             /\ monitoring_tasks[o].pc = "off"
                   => /\ monitoring_tasks'[o] \in {NoTask, NewTask}
                      /\ monitoring_tasks'[o] = NewTask => loop_tasks'[o] = 1
                      /\ \A w \in 1..MaxWorkers :
                            workers[w].pc = "free"
                               => \/ workers'[w].pc = "free"
                                  \/ workers'[w].user_id # o]_vars

\* a loop was stopped while a fetch of its batch was under way, and the owner
\* has no handle
C24_Witness ==
    \E o \in Owners, w \in 1..MaxWorkers :
        /\ monitoring_tasks[o].pc = "off"
        /\ loop_tasks[o] = 0
        /\ workers[w].pc # "free"
        /\ workers[w].user_id = o
        /\ ~workers[w].attached

\* ---- C25 ----
SpecCycle == InitCycle /\ [][NextMonitor]_vars

\* the step that ends a cycle of the loop of owner o: the last batch is over
\* and the loop goes to its five-minute sleep
cycle_end_step(o) == monitoring_tasks[o].pc = "wait" /\ monitoring_tasks'[o].pc = "load"

\* C25: when a monitoring cycle ends and every forward it started is over,
\* one notification is sent if and only if a message found in the cycle was
\* forwarded to the sink.  The code sends it when a fetch returned a new
\* message, whether or not the message was filtered out or its delivery
\* failed.
C25_NotifyIffForwarded ==
    [][\A o \in Owners :
          cycle_end_step(o) /\ forward_tasks = <<>>
          => /\ forwarded_in_cycle(monitoring_tasks[o]) => Len(notices') = Len(notices) + 1
             /\ ~forwarded_in_cycle(monitoring_tasks[o]) => notices' = notices]_vars

\* ---- C26 ----
\* the Sender Filter allows a sender when the owner has no filter or has one
\* for this address
sender_allowed(o, sender) ==
    \/ \A f \in monitor_filters : f.user_id # o
    \/ [user_id |-> o, sender_email |-> lower(sender)] \in monitor_filters

\* the active sink URLs of an owner
active_sinks(o) == {row.url : row \in {r \in webhooks : r.user_id = o /\ r.is_active = 1}}

\* a forward task has run to its end
forward_step == forward_tasks # <<>> /\ forward_tasks' = Tail(forward_tasks)

has_row(email_data) ==
    /\ email_data.id \in 1..Len(emails)
    /\ emails[email_data.id].user_id = email_data.user_id
    /\ emails[email_data.id].sender = email_data.sender

\* the results that fetches are collecting or have returned to their callers
fetch_results ==
    {workers[w].new_emails_data : w \in {x \in 1..MaxWorkers : workers[x].pc # "free"}}
        \cup {forward_tasks}

\* C27: every message in a fetch result, while the fetch collects it and
\* after it is returned, has a committed row in the store; no message of an
\* account is stored twice; and a stored row stays, whatever becomes of the
\* fetch and of the forward.
C27_StoredBeforeReturned ==
    /\ [](\A result \in fetch_results : \A k \in 1..Len(result) : has_row(result[k]))
    /\ [](\A i, j \in 1..Len(emails) :
             (emails[i].account_id = emails[j].account_id
                 /\ emails[i].message_id = emails[j].message_id) => i = j)
    /\ [][/\ Len(emails') >= Len(emails)
          /\ \A id \in 1..Len(emails) :
                /\ emails'[id].account_id = emails[id].account_id
                /\ emails'[id].message_id = emails[id].message_id]_vars

\* a stored message that the filter allows and whose forward was dropped: no
\* fetch result holds it, no forward is pending for it and nothing was
\* delivered for it, while a fetch of its account is under way again
C27_Witness ==
    \E id \in 1..Len(emails) :
        /\ sender_allowed(emails[id].user_id, emails[id].sender)
        /\ \A result \in fetch_results : \A k \in 1..Len(result) : result[k].id # id
        /\ \A k \in 1..Len(sink) : sink[k].id # id
        /\ \E w \in 1..MaxWorkers :
              /\ workers[w].pc = "fetch"
              /\ workers[w].account_id = emails[id].account_id
              /\ workers[w].pos > 1

\* ---- C28 ----
\* the message at place k of a worker's listing is in the store
listed_stored(worker, k) ==
    already_processed(emails, worker.account_id,
                      message_id_of(mailbox[worker.account_id][worker.listing[k]],
                                    worker.listing[k]))

\* C28: a fetch goes through its listing one message at a time, whatever
\* fails: a step of the thread moves it by at most one message and takes
\* nothing out of its result; a thread that has had no failure has stored
\* every message it has gone past; the thread returns only when it has gone
\* past the whole listing; and the return, also that of a fetch whose
\* connect, login or logout failed, hands its caller the collected result or
\* an empty one and leaves the owner's loop waiting for its batch.
C28_MessageFailureSkipsOne ==
    /\ [](\A w \in 1..MaxWorkers :
             (workers[w].pc # "free" /\ ~workers[w].failed /\ ~workers[w].raised)
                => \A k \in 1..(workers[w].pos - 1) : listed_stored(workers[w], k))
    /\ [][\A w \in 1..MaxWorkers :
             /\ (workers[w].pc # "free" /\ workers'[w].pc # "free")
                   => /\ workers'[w].pos \in {workers[w].pos, workers[w].pos + 1}
                      /\ workers'[w].listing = workers[w].listing
                      /\ Len(workers'[w].new_emails_data) >= Len(workers[w].new_emails_data)
                      /\ SubSeq(workers'[w].new_emails_data, 1, Len(workers[w].new_emails_data))
                            = workers[w].new_emails_data
             /\ (workers[w].pc # "free" /\ workers'[w].pc = "free")
                   => /\ workers[w].pos = Len(workers[w].listing) + 1
                      /\ forward_tasks' \in {forward_tasks,
                                             forward_tasks \o workers[w].new_emails_data}
                      /\ (workers[w].listing = <<>>) => forward_tasks' = forward_tasks
                      /\ monitoring_tasks'[workers[w].user_id].pc
                            = monitoring_tasks[workers[w].user_id].pc]_vars

\* a fetch of two messages has failed on the first, which is not stored, and
\* has stored and collected the second
C28_Witness ==
    \E w \in 1..MaxWorkers :
        /\ workers[w].pc = "fetch"
        /\ Len(workers[w].listing) = 2
        /\ workers[w].pos = 3
        /\ workers[w].failed
        /\ ~listed_stored(workers[w], 1)
        /\ listed_stored(workers[w], 2)
        /\ Len(workers[w].new_emails_data) = 1

\* ---- C29 ----
\* The loops of both owners with the forward in two steps: the event loop
\* is held from the first HTTP request of a forward to the answer of its
\* POST.  The fetches run on threads of the executor; every fetch succeeds
\* and every batch returns within its timeout.
NextBlocking ==
    \/ \E o \in Owners : StartMonitoring(o)
    \/ \E o \in Owners : MonitorSpawn(o)
    \/ \E o \in Owners : MonitorGather(o)
    \/ \E a \in DOMAIN mailbox : Deliver(a)
    \/ \E w \in 1..MaxWorkers : WorkerFetch(w, TRUE)
    \/ \E w \in 1..MaxWorkers : WorkerInsert(w)
    \/ \E w \in 1..MaxWorkers : WorkerReturn(w, TRUE)
    \/ ForwardCall
    \/ \E answer \in SinkAnswers : ForwardAnswer(answer)

SpecBlocking == InitBlocking /\ [][NextBlocking]_vars

\* C29: while a forward of one owner waits for the translation service or
\* the sink, the loop of another owner whose batch of fetches has returned
\* can take its next step.  In the code the forward waits inside
\* requests.get and requests.post on the thread of the event loop, and no
\* loop runs until it is answered.
C29_LoopsIndependent ==
    \A o \in Owners :
        (/\ posting # NoPost
         /\ posting.user_id # o
         /\ monitoring_tasks[o].pc = "wait"
         /\ attached_workers(o) = {})
            => ENABLED MonitorGather(o)

\* ---- C30 ----
\* the step of a run that inserts its parsed lines
ingest_step(r) == runs[r].pc = "ingest" /\ runs'[r].pc # "ingest"

\* the step of a run that hands a batch to the worker pool
dispatch_step(r) == runs[r].pc = "loop" /\ runs'[r].pc = "gather"

\* an owner has at most one account per address
one_account_per_address ==
    \A i, j \in 1..Len(accounts) :
        (accounts[i].user_id = accounts[j].user_id /\ accounts[i].email = accounts[j].email)
            => i = j

\* the insert of an upload leaves every stored account as it was
ingest_keeps_accounts ==
    \A r \in 1..Len(runs) :
        ingest_step(r) => /\ Len(accounts') >= Len(accounts)
                          /\ SubSeq(accounts', 1, Len(accounts)) = accounts

\* no account with a terminal status is handed to a probe
dispatch_only_pending ==
    \A r \in 1..Len(runs) :
        dispatch_step(r) =>
            \A k \in 1..Len(batch_of(runs[r])) :
                accounts[batch_of(runs[r])[k].id].status \notin TerminalStatuses

\* C30: an upload creates no second account for an address its owner has
\* already and leaves the stored accounts unchanged, each owner has at most
\* one account per address, and an account that has a terminal status is
\* not validated again.  The last part fails when two uploads of one owner
\* overlap: both select the account while it is pending.
C30_ReuploadAccumulates ==
    /\ []one_account_per_address
    /\ [][ingest_keeps_accounts]_vars
    /\ [][dispatch_only_pending]_vars

\* the parts of C30 that do not depend on how runs interleave
store_accumulates == []one_account_per_address /\ [][ingest_keeps_accounts]_vars

\* ---- C31 ----
\* C31: no step of the monitoring loops, the fetches and the forwards
\* changes the accounts table, also not the return of a fetch whose connect
\* or login failed; and every account a loop has loaded, and every account
\* a fetch is polling, is an active account of the owner of the loop.
C31_MonitoringLeavesAccounts ==
    /\ [][accounts' = accounts]_vars
    /\ [](\A o \in Owners : \A k \in 1..Len(monitoring_tasks[o].accts) :
             /\ accounts[monitoring_tasks[o].accts[k].id].status = "active"
             /\ accounts[monitoring_tasks[o].accts[k].id].user_id = o)
    /\ [](\A w \in 1..MaxWorkers :
             workers[w].pc # "free"
                => /\ accounts[workers[w].account_id].status = "active"
                   /\ accounts[workers[w].account_id].user_id = workers[w].user_id)

\* a fetch could not connect or log in to an account that has mail, and the
\* account is still active
C31_Witness ==
    \E w \in 1..MaxWorkers :
        /\ workers[w].pc = "fetch"
        /\ workers[w].failed
        /\ workers[w].listing = <<>>
        /\ mailbox[workers[w].account_id] # <<>>
        /\ accounts[workers[w].account_id].status = "active"

\* ---- C32 ----
\* the ids of the accounts a run has handed to probes
probed_by(r) == {runs[r].probed[k] : k \in 1..Len(runs[r].probed)}

\* no account is probed by two runs
one_run_per_account ==
    \A r1, r2 \in 1..Len(runs) : r1 # r2 => probed_by(r1) \cap probed_by(r2) = {}

\* a terminal status is not replaced by another status
terminal_status_stays ==
    \A id \in 1..Len(accounts) :
        accounts[id].status \in TerminalStatuses => accounts'[id].status = accounts[id].status

\* C32: also when uploads of one owner overlap, every account is probed by
\* at most one run and an account that has a terminal status keeps it.  In
\* the code each run selects the owner's pending accounts for itself, so two
\* overlapping runs probe the same accounts and the later result overwrites
\* the earlier one.
C32_OverlapProbesOnce ==
    /\ []one_run_per_account
    /\ [][terminal_status_stays]_vars

\* the second half of C32 alone
status_never_rewritten == [][terminal_status_stays]_vars

\* ---- C33 ----
\* the two-factor counter as the status display reads it: stats.get('twofa', 0)
twofa_of(stats) == IF "twofa" \in DOMAIN stats THEN stats.twofa ELSE 0

\* C33: whenever a run of an owner is at a batch boundary, the owner's
\* progress record satisfies 0 <= processed <= total and processed =
\* successful + failed + two-factor, also when uploads of the owner overlap.
\* In the code the start of a second run replaces the record the first run
\* is counting into.
C33_ProgressRecordBounds ==
    \A r \in 1..Len(runs) :
        runs[r].pc \in {"loop", "stopping"} =>
            LET stats == login_stats[runs[r].owner]
            IN /\ {"successful", "failed", "processed", "total"} \subseteq DOMAIN stats
               /\ 0 <= stats.processed
               /\ stats.processed <= stats.total
               /\ stats.processed = stats.successful + stats.failed + twofa_of(stats)

\* ---- C34 ----
\* a stop was requested of run r, which has not yet come to its end
stop_pending(r) == runs[r].stop_asked /\ run_executing(runs[r]) /\ ~runs[r].stopped

\* C34: the stop request of an owner stays in place as long as a run it was
\* aimed at is in progress and has not acted on it, whatever else the owner
\* starts; and such a run, at its next batch boundary, stops instead of
\* dispatching a batch.  In the code the start of every run clears the
\* owner's request.
C34_StopSurvivesNewRun ==
    [][\A r \in 1..Len(runs) :
          (stop_pending(r) /\ run_executing(runs'[r]) /\ ~runs'[r].stopped)
             => /\ stop_login_requested'[runs[r].owner]
                /\ runs[r].pc = "loop" => runs'[r].pc = "loop"]_vars

\* ---- C35 ----
\* C35: the results message of a run is sent to the owner of the run, and a
\* new-message notification of a loop to the owner of the loop.  In the code
\* both are sent to the user who ran /upload_emails last.
C35_ResultsToOwnerOnly ==
    /\ \A r \in 1..Len(runs) : runs[r].dm.to \in {0, runs[r].owner}
    /\ \A k \in 1..Len(notices) : notices[k].to = notices[k].user_id

\* ---- C36 ----
\* a validation run of owner o is executing
run_in_progress(o) == \E r \in 1..Len(runs) : runs[r].owner = o /\ run_executing(runs[r])

\* C36: the in-progress flag of an owner is set exactly while a validation
\* run of that owner is executing, so that /stop is accepted exactly then.
\* In the code a run that ends by an exception leaves the flag set, and the
\* end of one of two overlapping runs clears it for the other.
C36_FlagTracksRun ==
    \A o \in Owners : login_in_progress[o] <=> run_in_progress(o)

\* ---- C37 ----
\* login, mailbox selection and message count succeeded against the
\* candidate that ended the probe
candidate_succeeded ==
    /\ p_resps # <<>>
    /\ p_resps[Len(p_resps)].kind \in {"ok", "store_error"}

\* C37: a probe whose login, selection and count succeeded against a
\* candidate makes the account active, whether or not the write of the
\* working endpoint succeeds.  In the code the write is inside the try block
\* of the candidate, and its failure is reported as a connection error.
C37_SuccessDespiteStoreFailure ==
    (p_status # "pending" /\ candidate_succeeded) => p_status = "active"

\* ---- C38 ----
\* the account-id set of a run
ids_of_run(r) == {runs[r].accts[k].id : k \in 1..Len(runs[r].accts)}

\* C38: the three lists of a run's results message are pairwise disjoint and
\* list accounts of the run only, also when the run selected no account
\* because every address of the upload was stored already.  In the code an
\* empty id list makes send_results_dm list every account of the owner.
C38_ResultsOfRunOnly ==
    \A r \in 1..Len(runs) :
        /\ runs[r].dm.valid \cap runs[r].dm.invalid = {}
        /\ runs[r].dm.valid \cap runs[r].dm.twofa = {}
        /\ runs[r].dm.invalid \cap runs[r].dm.twofa = {}
        /\ (runs[r].dm.valid \cup runs[r].dm.invalid \cup runs[r].dm.twofa) \subseteq ids_of_run(r)

\* ---- C39 ----
\* C39: every message a fetch has inserted is handed to a forward: when the
\* thread of a fetch returns, a forward task is created for each row it
\* inserted, also when the batch of the fetch has reached its deadline in
\* the meantime.  In the code the task that would create the forwards is
\* cancelled at the deadline while its thread goes on inserting, and no later
\* fetch picks a stored message up again.
C39_InsertedIsForwarded ==
    [][\A w \in 1..MaxWorkers :
          (workers[w].pc # "free" /\ workers'[w].pc = "free")
             => forward_tasks' = forward_tasks \o workers[w].new_emails_data]_vars

\* ---- C40 ----
\* C40: while an owner has no monitoring loop, no message is inserted into
\* the store for that owner and none of the owner's messages is delivered to
\* the sink.  In the code the stop cancels the loop only: the threads of the
\* fetches under way go on inserting and the forward tasks already created
\* go on delivering.
C40_StopIsComplete ==
    [][\A o \in Owners :
          (monitoring_tasks[o].pc = "off" /\ monitoring_tasks'[o].pc = "off")
             => /\ \A id \in (Len(emails) + 1)..Len(emails') : emails'[id].user_id # o
                /\ \A k \in (Len(sink) + 1)..Len(sink') : emails'[sink'[k].id].user_id # o]_vars

====
